---- MODULE Spec2Model ----
(***************************************************************************)
(* SoulScript chat backend: the session orchestration pipeline             *)
(* (ChatService.send_message), the conversation memory window              *)
(* (ConversationSummaryBufferMessageHistory) and the moderation gate       *)
(* (ContentFilterService), modelled from backend/app/services.             *)
(*                                                                         *)
(* The relational store is modelled as tables: sessions (chatsession),     *)
(* messages (chatmessage, in creation order) and logs (contentfilterlog).  *)
(* Store writes succeed in the specifications of this module.  The two     *)
(* external services, the chat model and the moderation classifier, are    *)
(* inputs of the actions: the classifier is a fixed function of the text   *)
(* that may be unreachable on any call, the model returns any text of      *)
(* AiTexts or raises, and the summarization call returns any non-empty     *)
(* text of Summaries or raises.                                            *)
(***************************************************************************)
EXTENDS Integers, Sequences, FiniteSets, TLC

VARIABLES
    sessions,         \* chatsession table: session id -> row, or NoSession
    messages,         \* chatmessage table, rows in creation order
    logs,             \* contentfilterlog table
    chat_memory_map,  \* ChatService.chat_memory_map: session id -> window
    chat_pipeline,    \* ChatService.chat_pipeline is not None
    feature_flags,    \* featureflag table, rows in insertion order
    stream,           \* the streamed reply in flight, or NoStream
    pdf_documents,    \* pdfdocument table: document id -> row, or NoPdf
    vectordb,         \* the Chroma collection: chunks in insertion order
    background_tasks, \* process_pdf / reprocess_pdf tasks scheduled or running
    requests,         \* send_message calls in flight: worker -> its position
                      \* and locals, or Idle
    summarized,       \* history, kept by the sends of SpecRun: session id ->
                      \* contents of the turns handed to a summarization call
    pool,             \* session ids uuid4 has yet to issue (none repeats)
    nextId,           \* number of chatmessage rows inserted so far
    last,             \* the last call: what was asked and what came back
    cleared           \* history: sessions whose memory was cleared, nothing
                      \* appended or sent since

vars == <<sessions, messages, logs, chat_memory_map, chat_pipeline,
          feature_flags, stream, pdf_documents, vectordb, background_tasks,
          requests, summarized, pool, nextId, last, cleared>>

---------------------------------------------------------------------------
(* Program constants *)

\* ConversationSummaryBufferMessageHistory.k: the window keeps the last 6 turns
K == 6

NEW_CHAT == "New Chat"
AI_RESPONSE_BLOCKED_MESSAGE == "I apologize, but I cannot provide that response"
BLOCKED_SESSION_DELETE_ERROR == "RetentionPolicy"

\* title = content[:50] + "..." if len(content) > 50 else content
TitleMax == 50

---------------------------------------------------------------------------
(* Bounds of the model *)

\* ChatMessage rows ever inserted by the service (ids are never reused)
MaxMsgs == 4

\* ChatMessage rows of the session the memory-manager specification starts from
MaxStored == 8

\* contents of the stored rows, one per row id
StoredTexts == <<"m1", "m2", "m3", "m4", "m5", "m6", "m7", "m8", "m9", "m10",
                 "m11", "m12">>

\* turns appended directly to a window in the memory-manager specification
AppendedTurns == {[type |-> "human", content |-> "hello"],
                  [type |-> "ai", content |-> "reply"]}

SessionIds == {"s1", "s2"}
Users == {"u1", "u2"}
Titles == {NEW_CHAT, "Trip"}
NewTitles == {"Renamed"}

\* contents for the automatic title: the sentinel itself, a short one, one of
\* exactly 50 characters and one of 51
Text50 == "Tell me about the aqueducts of Rome and who built "
Text51 == "Tell me about the aqueducts of Rome and who built i"
TitleTexts == {NEW_CHAT, "hello", Text50, Text51}

\* what _get_pdf_context and get_active_flags_prompt_text may return
PdfContexts == {"", "Aqueducts, p. 3: built by Appius"}
FlagPrompts == {"", "Active features:\n- daily_verse: a verse a day"}

\* anonymous-session tokens
AnonTokens == {"a1", "a2"}

\* categories the classifier answers with a flag for
ClassifierCategories == {"violence", "sexual", "self_harm", "hate",
                         "harassment", "sexual_minors", "violence_graphic"}

UserTexts == {"hello", "kill them"}
AiTexts == {"reply", "smut"}
Summaries == {"S1", "S2"}

NoSession == [absent |-> TRUE]
NoStream == [phase |-> "none"]

\* pdfdocument ids, and the value of an id that has no row
PdfIds == {"p1", "p2"}
NoPdf == [absent |-> TRUE]

\* the workers that serve send_message calls, and a worker that serves none
Workers == {"w1", "w2"}
Idle == [pc |-> "idle"]
NoWindow == <<[type |-> "none", content |-> ""]>>
\* last_summary_message_id = "": no message id (ids are 1, 2, ...)
NoId == 0

---------------------------------------------------------------------------
(* Sequence helpers *)

RECURSIVE SelectSession(_, _)
\* select(ChatMessage).where(ChatMessage.session_id == sid), creation order
SelectSession(msgs, sid) ==
    IF msgs = <<>> THEN <<>>
    ELSE IF Head(msgs).session_id = sid
         THEN <<Head(msgs)>> \o SelectSession(Tail(msgs), sid)
         ELSE SelectSession(Tail(msgs), sid)

\* seq[-n:] for n >= 1, and order_by(desc).limit(n) re-reversed
LastN(seq, n) ==
    IF Len(seq) <= n THEN seq ELSE SubSeq(seq, Len(seq) - n + 1, Len(seq))

---------------------------------------------------------------------------
(* Moderation gate: ContentFilterService *)

\* blocked_categories, in the dict's insertion order
BlockedCategories ==
    << [category |-> "violence",  reason |-> "Violence"],
       [category |-> "sexual",    reason |-> "Sexual Content"],
       [category |-> "self_harm", reason |-> "Self-Harm"],
       [category |-> "hate",      reason |-> "Hate Speech"] >>

\* The classifier (client.moderations.create): the categories it flags for a text
Classify(text) ==
    CASE text = "kill them" -> {"violence", "hate", "harassment"}
      [] text = "smut"      -> {"sexual"}
      [] OTHER              -> {}

\* the loop over blocked_categories.items() leaving at the first category set
BlockedReasonsFirstOnly(cats, flags) ==
    LET hit == {i \in 1..Len(cats) : cats[i].category \in flags}
    IN  IF hit = {} THEN <<>>
        ELSE <<cats[CHOOSE i \in hit : \A j \in hit : i <= j].reason>>

RECURSIVE BlockedReasons(_, _)
\* the loop over blocked_categories.items() that collects blocked_reasons
BlockedReasons(cats, flags) ==
    IF cats = <<>> THEN <<>>
    ELSE IF Head(cats).category \in flags
         THEN <<Head(cats).reason>> \o BlockedReasons(Tail(cats), flags)
         ELSE BlockedReasons(Tail(cats), flags)

RECURSIVE Join(_, _)
\* sep.join(parts)
Join(parts, sep) ==
    IF parts = <<>> THEN ""
    ELSE IF Len(parts) = 1 THEN parts[1]
    ELSE parts[1] \o sep \o Join(Tail(parts), sep)

\* filter_content that refuses the text when the classifier does not answer
FilterResultFailClosed(flags, up) ==
    IF ~up
    THEN [is_allowed |-> FALSE, blocked_reason |-> "Moderation unavailable"]
    ELSE LET blocked_reasons == BlockedReasons(BlockedCategories, flags)
         IN  [is_allowed |-> Len(blocked_reasons) = 0,
              blocked_reason |-> Join(blocked_reasons, "; ")]

\* filter_content on a text for which the classifier, when it answers, sets
\* the flags of the categories in flags; up = FALSE when the client is missing
\* or the call raises
FilterResult(flags, up) ==
    IF ~up
    THEN [is_allowed |-> TRUE, blocked_reason |-> ""]
    ELSE LET blocked_reasons == BlockedReasons(BlockedCategories, flags)
         IN  [is_allowed |-> Len(blocked_reasons) = 0,
              blocked_reason |-> Join(blocked_reasons, "; ")]

\* filter_content
FilterContent(content, up) == FilterResult(Classify(content), up)

\* log_violation that files every row under user_input
LogViolationAsUserInput(lg, user_id, sid, content_type, original_content, blocked_reason) ==
    Append(lg, [user_id |-> user_id, session_id |-> sid,
                content_type |-> "user_input",
                original_content |-> original_content,
                blocked_reason |-> blocked_reason])

\* log_violation: one ContentFilterLog row
LogViolation(lg, user_id, sid, content_type, original_content, blocked_reason) ==
    Append(lg, [user_id |-> user_id, session_id |-> sid,
                content_type |-> content_type,
                original_content |-> original_content,
                blocked_reason |-> blocked_reason])

\* block_chat_session that records the reason and leaves the flag alone
BlockChatSessionReasonOnly(sess, sid, blocked_reason) ==
    IF sess[sid] = NoSession THEN sess
    ELSE [sess EXCEPT ![sid].blocked_reason = blocked_reason]

\* block_chat_session
BlockChatSession(sess, sid, blocked_reason) ==
    IF sess[sid] = NoSession THEN sess
    ELSE [sess EXCEPT ![sid].is_blocked = TRUE,
                      ![sid].blocked_reason = blocked_reason]

---------------------------------------------------------------------------
(* Conversation memory: ConversationSummaryBufferMessageHistory *)

SystemMessage(text) == [type |-> "system", content |-> text]
HumanMessage(text) == [type |-> "human", content |-> text]
AIMessage(text) == [type |-> "ai", content |-> text]

\* the loop of _load_from_database that turns a row into a window message
ToWindowMessage(msg) ==
    IF msg.role = "user" THEN HumanMessage(msg.content) ELSE AIMessage(msg.content)

\* _load_from_database without reversed(): the rows stay newest first
LoadFromDatabaseNewestFirst(sess, msgs, sid) ==
    IF sess[sid] = NoSession THEN <<>>
    ELSE LET recent_messages == LastN(SelectSession(msgs, sid), K)
             n == Len(recent_messages)
             summary == IF sess[sid].conversation_summary # ""
                        THEN <<SystemMessage(sess[sid].conversation_summary)>>
                        ELSE <<>>
         IN  summary \o [i \in 1..n |-> ToWindowMessage(recent_messages[n + 1 - i])]

\* _load_from_database, called by __init__ on an empty self.messages
LoadFromDatabase(sess, msgs, sid) ==
    IF sess[sid] = NoSession THEN <<>>
    ELSE LET recent_messages == LastN(SelectSession(msgs, sid), K)
             summary == IF sess[sid].conversation_summary # ""
                        THEN <<SystemMessage(sess[sid].conversation_summary)>>
                        ELSE <<>>
         IN  summary \o [i \in 1..Len(recent_messages) |->
                            ToWindowMessage(recent_messages[i])]

\* _save_summary_to_database that moves the marker and keeps the old text
SaveSummaryMarkerOnly(sess, msgs, sid, summary) ==
    IF sess[sid] = NoSession THEN sess
    ELSE LET mine == SelectSession(msgs, sid)
         IN  [sess EXCEPT
                ![sid].last_summary_message_id =
                    IF mine # <<>> THEN mine[Len(mine)].id
                    ELSE sess[sid].last_summary_message_id]

\* _save_summary_to_database
SaveSummaryToDatabase(sess, msgs, sid, summary) ==
    IF sess[sid] = NoSession THEN sess
    ELSE LET mine == SelectSession(msgs, sid)
         IN  [sess EXCEPT
                ![sid].conversation_summary = summary,
                ![sid].last_summary_message_id =
                    IF mine # <<>> THEN mine[Len(mine)].id
                    ELSE sess[sid].last_summary_message_id]

HasSummary(win) == Len(win) > 0 /\ win[1].type = "system"

\* the window without its leading summary message
Turns(win) == IF HasSummary(win) THEN Tail(win) ELSE win

\* add_messages that summarizes the old turns and forgets to drop them
AddMessagesUntrimmed(win, new, out) ==
    LET extended == Turns(win) \o new
        evicts == Len(extended) > K
    IN  IF evicts /\ out # "raise"
        THEN [messages |-> <<SystemMessage(out)>> \o extended,
              saved |-> TRUE, summary |-> out,
              old_messages |-> SubSeq(extended, 1, Len(extended) - K)]
        ELSE [messages |-> extended, saved |-> FALSE, summary |-> "",
              old_messages |-> <<>>]

\* add_messages(new) on window win; out is the text the summarization call
\* returns, or "raise".  Yields the new window and the summary it saved.
AddMessages(win, new, out) ==
    LET extended == Turns(win) \o new
        evicts == Len(extended) > K
        kept == IF evicts THEN LastN(extended, K) ELSE extended
    IN  IF evicts /\ out # "raise"
        THEN [messages |-> <<SystemMessage(out)>> \o kept,
              saved |-> TRUE, summary |-> out,
              old_messages |-> SubSeq(extended, 1, Len(extended) - K)]
        ELSE [messages |-> kept, saved |-> FALSE, summary |-> "",
              old_messages |-> IF evicts
                               THEN SubSeq(extended, 1, Len(extended) - K)
                               ELSE <<>>]

\* add_messages with its write to the store
AddToStore(sess, msgs, sid, added) ==
    IF added.saved THEN SaveSummaryToDatabase(sess, msgs, sid, added.summary)
    ELSE sess

\* clear that blanks the marker and leaves the summary text
ClearStoreMarkerOnly(sess, sid) ==
    IF sess[sid] = NoSession THEN sess
    ELSE [sess EXCEPT ![sid].last_summary_message_id = NoId]

\* clear: the store side (the window becomes [])
ClearStore(sess, sid) ==
    IF sess[sid] = NoSession THEN sess
    ELSE [sess EXCEPT ![sid].conversation_summary = "",
                      ![sid].last_summary_message_id = NoId]

---------------------------------------------------------------------------
(* Session orchestration: ChatService *)

Exists(sess, sid) == sess[sid] # NoSession

\* the lookup without its owner_id condition: any existing session is found
FindOwnedAnyOwner(sess, sid, user_id) == Exists(sess, sid)

\* select(ChatSession).where(id == session_id, owner_id == user_id).first()
FindOwned(sess, sid, user_id) ==
    Exists(sess, sid) /\ sess[sid].owner_id = user_id

\* send_message without its is_blocked check
IsBlockedUnchecked(sess, sid) == FALSE

\* if session.is_blocked: raise ValueError("Chat session is blocked ...")
IsBlocked(sess, sid) == sess[sid].is_blocked

\* a registered session that is also given an anonymous token
NewSessionWithToken(user_id, title) ==
    [owner_id |-> user_id, anon_session_id |-> "a1", title |-> title,
     is_blocked |-> FALSE, blocked_reason |-> "",
     conversation_summary |-> "", last_summary_message_id |-> NoId]

\* ChatSession(owner_id=user_id, title=title) with the column defaults
NewSession(user_id, title) ==
    [owner_id |-> user_id, title |-> title,
     is_blocked |-> FALSE, blocked_reason |-> "",
     conversation_summary |-> "", last_summary_message_id |-> NoId]

\* a prompt that gives the instruction to cite before the question and ends
\* with the question
EnhancedQueryQuestionLast(content, pdf_context, active_flags_prompt) ==
    LET with_context ==
            IF pdf_context # ""
            THEN "Context from your documents:\n" \o pdf_context
                 \o "\n\nPlease search the provided context and cite specific passages when answering."
                 \o "\n\nUser question: " \o content
            ELSE content
    IN  IF active_flags_prompt # ""
        THEN active_flags_prompt \o "\n\n" \o with_context
        ELSE with_context

\* enhanced_query: the text send_message composes for the model from the
\* retrieval context and the prompt text of the active feature flags
EnhancedQuery(content, pdf_context, active_flags_prompt) ==
    LET with_context ==
            IF pdf_context # ""
            THEN "Context from your documents:\n" \o pdf_context
                 \o "\n\nUser question: " \o content
                 \o "\n\nPlease search the provided context and cite specific passages when answering."
            ELSE content
    IN  IF active_flags_prompt # ""
        THEN active_flags_prompt \o "\n\n" \o with_context
        ELSE with_context

\* a user row that holds the text composed for the model, not the content
NewMessageAsPrompt(id, sid, role, content) ==
    [id |-> id, session_id |-> sid, role |-> role,
     content |-> IF role = "user"
                 THEN EnhancedQuery(content, "Aqueducts, p. 3: built by Appius", "")
                 ELSE content]

\* ChatMessage(session_id=..., content=..., role=...), id issued on insert
NewMessage(id, sid, role, content) ==
    [id |-> id, session_id |-> sid, role |-> role, content |-> content]

\* the title cut to 50 characters without the "..." that marks the cut
AutoTitleNoEllipsis(content) ==
    IF Len(content) > TitleMax THEN SubSeq(content, 1, TitleMax) ELSE content

\* title = content[:50] + "..." if len(content) > 50 else content
AutoTitle(content) ==
    IF Len(content) > TitleMax
    THEN SubSeq(content, 1, TitleMax) \o "..."
    ELSE content

\* the blocked branch without the replacement of ai_content
OutgoingTextUnreplaced(ai_filter_result, generated) == generated

\* if not ai_filter_result["is_allowed"]: ai_content = AI_RESPONSE_BLOCKED_MESSAGE
OutgoingText(ai_filter_result, generated) ==
    IF ai_filter_result.is_allowed THEN generated ELSE AI_RESPONSE_BLOCKED_MESSAGE

\* a rollback that also loses the user row (a row added but not committed)
RollbackLosesUserRow(before, committed) == before

\* except: db.rollback(); raise -- rows committed before the failure stay
Rollback(before, committed) == committed

\* the outcomes of the summarization call an append can see: it is made only
\* when the append evicts turns
SummaryOutcomes(win, new) ==
    IF Len(Turns(win) \o new) > K THEN Summaries \cup {"raise"} ELSE {"unused"}

\* what the caller sees of a call: the operation, the session and the error
\* raised ("" when it returned)
Call(op, sid, err) == [op |-> op, sid |-> sid, err |-> err]

\* create_session
CreateSession(user_id, title) ==
    /\ pool # <<>>
    /\ LET sid == Head(pool)
       IN  /\ sessions' = [sessions EXCEPT ![sid] = NewSession(user_id, title)]
           /\ pool' = Tail(pool)
           /\ last' = Call("create_session", sid, "")
    /\ UNCHANGED <<messages, logs, chat_memory_map, chat_pipeline, stream, feature_flags, nextId, cleared,
                 pdf_documents, vectordb, background_tasks, requests, summarized>>

\* update_session_title that writes a fresh row with the new title instead of
\* updating the title of the row it found
UpdateSessionTitleResetsRow(sid, user_id, title) ==
    /\ IF ~(Exists(sessions, sid) /\ sessions[sid].owner_id = user_id)
       THEN /\ last' = Call("update_session_title", sid, "NotFound")
            /\ UNCHANGED sessions
       ELSE /\ sessions' = [sessions EXCEPT ![sid] = NewSession(user_id, title)]
            /\ last' = Call("update_session_title", sid, "")
    /\ UNCHANGED <<messages, logs, chat_memory_map, chat_pipeline, stream, feature_flags, pool, nextId, cleared,
                 pdf_documents, vectordb, background_tasks, requests, summarized>>

\* update_session_title
UpdateSessionTitle(sid, user_id, title) ==
    /\ IF ~FindOwned(sessions, sid, user_id)
       THEN /\ last' = Call("update_session_title", sid, "NotFound")
            /\ UNCHANGED sessions
       ELSE /\ sessions' = [sessions EXCEPT ![sid].title = title]
            /\ last' = Call("update_session_title", sid, "")
    /\ UNCHANGED <<messages, logs, chat_memory_map, chat_pipeline, stream, feature_flags, pool, nextId, cleared,
                 pdf_documents, vectordb, background_tasks, requests, summarized>>

\* a cascade that is not limited to the rows of the session: every row goes
WithoutSessionAll(rows, sid) == <<>>

\* rows of a table that do not reference session sid (ondelete CASCADE)
RECURSIVE WithoutSession(_, _)
WithoutSession(rows, sid) ==
    IF rows = <<>> THEN <<>>
    ELSE IF Head(rows).session_id = sid
         THEN WithoutSession(Tail(rows), sid)
         ELSE <<Head(rows)>> \o WithoutSession(Tail(rows), sid)

\* delete_session: the is_blocked check sits under the `if not session: raise`
\* and is never reached
DeleteSession(sid, user_id) ==
    /\ IF ~FindOwned(sessions, sid, user_id)
       THEN /\ last' = Call("delete_session", sid, "NotFound")
            /\ UNCHANGED <<sessions, messages, logs, chat_memory_map>>
       ELSE /\ sessions' = [sessions EXCEPT ![sid] = NoSession]
            /\ messages' = WithoutSession(messages, sid)
            /\ logs' = WithoutSession(logs, sid)
            /\ chat_memory_map' = [chat_memory_map EXCEPT ![sid] = NoWindow]
            /\ last' = Call("delete_session", sid, "")
    /\ UNCHANGED <<chat_pipeline, stream, feature_flags, pool, nextId, cleared,
                 pdf_documents, vectordb, background_tasks, requests, summarized>>

\* _get_chat_history: the window of the map, loaded on first use
GetChatHistory(sess, msgs, sid) ==
    IF chat_memory_map[sid] = NoWindow
    THEN LoadFromDatabase(sess, msgs, sid)
    ELSE chat_memory_map[sid]

\* send_message: the session is missing or owned by someone else
SendNotFound(sid, user_id, content) ==
    /\ ~FindOwned(sessions, sid, user_id)
    /\ last' = Call("send_message", sid, "NotFound")
    /\ UNCHANGED <<sessions, messages, logs, chat_memory_map, chat_pipeline, stream, feature_flags,
                   pool, nextId, cleared,
                 pdf_documents, vectordb, background_tasks, requests, summarized>>

\* send_message: the session is already blocked
SendBlocked(sid, user_id, content) ==
    /\ FindOwned(sessions, sid, user_id)
    /\ IsBlocked(sessions, sid)
    /\ last' = Call("send_message", sid, "Blocked")
    /\ UNCHANGED <<sessions, messages, logs, chat_memory_map, chat_pipeline, stream, feature_flags,
                   pool, nextId, cleared,
                 pdf_documents, vectordb, background_tasks, requests, summarized>>

\* send_message: the gate blocks the user's content
SendContentBlocked(sid, user_id, content) ==
    /\ FindOwned(sessions, sid, user_id)
    /\ ~IsBlocked(sessions, sid)
    /\ LET filter_result == FilterContent(content, TRUE)
       IN  /\ ~filter_result.is_allowed
           /\ logs' = LogViolation(logs, user_id, sid, "user_input", content,
                                   filter_result.blocked_reason)
           /\ sessions' = BlockChatSession(sessions, sid,
                                           filter_result.blocked_reason)
    /\ last' = Call("send_message", sid, "ContentBlocked")
    /\ UNCHANGED <<messages, chat_memory_map, chat_pipeline, stream, feature_flags, pool, nextId, cleared,
                 pdf_documents, vectordb, background_tasks, requests, summarized>>

\* send_message: no chat pipeline; the user message is already committed
SendNoPipeline(sid, user_id, content, up) ==
    /\ FindOwned(sessions, sid, user_id)
    /\ ~IsBlocked(sessions, sid)
    /\ FilterContent(content, up).is_allowed
    /\ ~chat_pipeline
    /\ nextId + 2 <= MaxMsgs
    /\ messages' = Rollback(messages,
           Append(messages, NewMessage(nextId + 1, sid, "user", content)))
    /\ nextId' = nextId + 1
    /\ last' = Call("send_message", sid, "ServiceUnavailable")
    /\ cleared' = cleared \ {sid}
    /\ UNCHANGED <<sessions, logs, chat_memory_map, chat_pipeline, stream, feature_flags, pool,
                 pdf_documents, vectordb, background_tasks, requests, summarized>>

\* send_message: the model call raises, after the user turn went into the window
SendModelRaises(sid, user_id, content, up) ==
    /\ FindOwned(sessions, sid, user_id)
    /\ ~IsBlocked(sessions, sid)
    /\ FilterContent(content, up).is_allowed
    /\ chat_pipeline
    /\ nextId + 2 <= MaxMsgs
    /\ LET msgs1 == Append(messages, NewMessage(nextId + 1, sid, "user", content))
           chat_history == GetChatHistory(sessions, msgs1, sid)
       IN  \E out1 \in SummaryOutcomes(chat_history, <<HumanMessage(content)>>) :
             LET added1 == AddMessages(chat_history, <<HumanMessage(content)>>, out1)
             IN  /\ messages' = Rollback(messages, msgs1)
                 /\ sessions' = AddToStore(sessions, msgs1, sid, added1)
                 /\ chat_memory_map' =
                        [chat_memory_map EXCEPT ![sid] = added1.messages]
    /\ nextId' = nextId + 1
    /\ last' = Call("send_message", sid, "UpstreamError")
    /\ cleared' = cleared \ {sid}
    /\ UNCHANGED <<logs, chat_pipeline, stream, feature_flags, pool,
                 pdf_documents, vectordb, background_tasks, requests, summarized>>

\* send_message: the model answers; its text is moderated, put into the window
\* and persisted
SendCompleted(sid, user_id, content, up, generated, up2) ==
    /\ FindOwned(sessions, sid, user_id)
    /\ ~IsBlocked(sessions, sid)
    /\ FilterContent(content, up).is_allowed
    /\ chat_pipeline
    /\ nextId + 2 <= MaxMsgs
    /\ LET msgs1 == Append(messages, NewMessage(nextId + 1, sid, "user", content))
           chat_history == GetChatHistory(sessions, msgs1, sid)
           ai_filter_result == FilterContent(generated, up2)
           ai_content == OutgoingText(ai_filter_result, generated)
       IN  \E out1 \in SummaryOutcomes(chat_history, <<HumanMessage(content)>>) :
             LET added1 == AddMessages(chat_history, <<HumanMessage(content)>>, out1)
                 sess1 == AddToStore(sessions, msgs1, sid, added1)
                 sess2 == IF ai_filter_result.is_allowed THEN sess1
                          ELSE BlockChatSession(sess1, sid,
                                                ai_filter_result.blocked_reason)
             IN  \E out2 \in SummaryOutcomes(added1.messages, <<AIMessage(ai_content)>>) :
                   LET added2 == AddMessages(added1.messages,
                                             <<AIMessage(ai_content)>>, out2)
                       sess3 == AddToStore(sess2, msgs1, sid, added2)
                   IN  /\ logs' = IF ai_filter_result.is_allowed THEN logs
                                  ELSE LogViolation(logs, user_id, sid, "ai_response",
                                                    generated,
                                                    ai_filter_result.blocked_reason)
                       /\ chat_memory_map' =
                              [chat_memory_map EXCEPT ![sid] = added2.messages]
                       /\ messages' = Append(msgs1,
                              NewMessage(nextId + 2, sid, "assistant", ai_content))
                       /\ sessions' =
                              [sess3 EXCEPT ![sid].title =
                                  IF sess3[sid].title = NEW_CHAT
                                  THEN AutoTitle(content) ELSE sess3[sid].title]
                       /\ last' = Call("send_message", sid, "")
    /\ nextId' = nextId + 2
    /\ cleared' = cleared \ {sid}
    /\ UNCHANGED <<chat_pipeline, stream, feature_flags, pool,
                 pdf_documents, vectordb, background_tasks, requests, summarized>>

\* send_message
SendMessage(sid, user_id, content) ==
    \/ SendNotFound(sid, user_id, content)
    \/ SendBlocked(sid, user_id, content)
    \/ SendContentBlocked(sid, user_id, content)
    \/ \E up \in BOOLEAN : SendNoPipeline(sid, user_id, content, up)
    \/ \E up \in BOOLEAN : SendModelRaises(sid, user_id, content, up)
    \/ \E up \in BOOLEAN, generated \in AiTexts, up2 \in BOOLEAN :
          SendCompleted(sid, user_id, content, up, generated, up2)

\* skip: int = 0, limit: int = 20 of the routes and of get_session_messages
DefaultSkip == 0
DefaultLimit == 20

RECURSIVE InsertByCreationDesc(_, _)
\* one row put into rows in descending creation order: order_by(...desc())
InsertByCreationDesc(row, rows) ==
    IF rows = <<>> THEN <<row>>
    ELSE IF row.id > Head(rows).id THEN <<row>> \o rows
    ELSE <<Head(rows)>> \o InsertByCreationDesc(row, Tail(rows))

RECURSIVE InsertByCreation(_, _)
\* one row put into rows already in ascending creation order; a row's id is
\* its insert serial, which orders rows as created_at does
InsertByCreation(row, rows) ==
    IF rows = <<>> THEN <<row>>
    ELSE IF row.id < Head(rows).id THEN <<row>> \o rows
    ELSE <<Head(rows)>> \o InsertByCreation(row, Tail(rows))

RECURSIVE OrderByCreatedAsc(_)
\* order_by(ChatMessage.created_at.asc())
OrderByCreatedAsc(rows) ==
    IF rows = <<>> THEN <<>>
    ELSE InsertByCreation(Head(rows), OrderByCreatedAsc(Tail(rows)))

\* seq[skip : skip + limit], as offset(skip).limit(limit) cuts a result
Page(seq, skip, limit) ==
    SubSeq(seq, skip + 1,
           IF skip + limit < Len(seq) THEN skip + limit ELSE Len(seq))

\* get_session_messages
GetSessionMessages(msgs, sid, skip, limit) ==
    Page(OrderByCreatedAsc(SelectSession(msgs, sid)), skip, limit)

\* read_chat_session (GET /sessions/{id}): the actor's session, or 404
ReadChatSession(sid, user_id) ==
    /\ last' = Call("read_chat_session", sid,
                    IF FindOwned(sessions, sid, user_id) THEN "" ELSE "NotFound")
    /\ UNCHANGED <<sessions, messages, logs, chat_memory_map, chat_pipeline, stream, feature_flags,
                   pool, nextId, cleared,
                 pdf_documents, vectordb, background_tasks, requests, summarized>>

\* read_chat_messages (GET /sessions/{id}/messages): a page of the actor's
\* session, GetSessionMessages(messages, sid, skip, limit), or 404
ReadChatMessages(sid, user_id) ==
    /\ last' = Call("read_chat_messages", sid,
                    IF FindOwned(sessions, sid, user_id) THEN "" ELSE "NotFound")
    /\ UNCHANGED <<sessions, messages, logs, chat_memory_map, chat_pipeline, stream, feature_flags,
                   pool, nextId, cleared,
                 pdf_documents, vectordb, background_tasks, requests, summarized>>

\* the status the routes answer a call with: read routes raise 404 themselves;
\* the update and delete routes turn every ValueError into 404; the send route
\* answers 404 for a missing session and lets every other error of
\* send_message fall to `except Exception`, which answers 500
HttpStatus(call) ==
    CASE call.err = "" -> 200
      [] call.op \in {"read_chat_session", "read_chat_messages"} -> 404
      [] call.op \in {"update_session_title", "delete_session"} -> 404
      [] call.op = "send_message" /\ call.err = "NotFound" -> 404
      [] OTHER -> 500

\* ChatService.__init__ in a new process: chat_memory_map = {}
Restart ==
    /\ chat_memory_map' = [s \in SessionIds |-> NoWindow]
    /\ last' = Call("restart", "", "")
    /\ UNCHANGED <<sessions, messages, logs, chat_pipeline, stream, feature_flags, pool, nextId, cleared,
                 pdf_documents, vectordb, background_tasks, requests, summarized>>

Init ==
    /\ sessions = [s \in SessionIds |-> NoSession]
    /\ messages = <<>>
    /\ logs = <<>>
    /\ chat_memory_map = [s \in SessionIds |-> NoWindow]
    /\ chat_pipeline \in BOOLEAN
    /\ feature_flags = <<>>
    /\ stream = NoStream
    /\ pdf_documents = [p \in PdfIds |-> NoPdf]
    /\ vectordb = <<>>
    /\ background_tasks = <<>>
    /\ requests = [w \in Workers |-> Idle]
    /\ summarized = [s \in SessionIds |-> {}]
    /\ pool = <<"s1">>
    /\ nextId = 0
    /\ last = Call("init", "", "")
    /\ cleared = {}

Next ==
    \/ \E u \in Users, t \in Titles : CreateSession(u, t)
    \/ \E s \in SessionIds, u \in Users, t \in NewTitles : UpdateSessionTitle(s, u, t)
    \/ \E s \in SessionIds, u \in Users : DeleteSession(s, u)
    \/ \E s \in SessionIds, u \in Users, c \in UserTexts : SendMessage(s, u, c)
    \/ Restart

Spec == Init /\ [][Next]_vars

\* The request layer: the operations of Next and the two read routes
NextApi ==
    \/ Next
    \/ \E s \in SessionIds, u \in Users : ReadChatSession(s, u)
    \/ \E s \in SessionIds, u \in Users : ReadChatMessages(s, u)

SpecApi == Init /\ [][NextApi]_vars

\* Two sessions side by side: uuid4 issues two ids, the pipeline is there, and
\* the sends are those that get past the lookup and the blocked check
InitTwo ==
    /\ sessions = [s \in SessionIds |-> NoSession]
    /\ messages = <<>>
    /\ logs = <<>>
    /\ chat_memory_map = [s \in SessionIds |-> NoWindow]
    /\ chat_pipeline = TRUE
    /\ feature_flags = <<>>
    /\ stream = NoStream
    /\ pdf_documents = [p \in PdfIds |-> NoPdf]
    /\ vectordb = <<>>
    /\ background_tasks = <<>>
    /\ requests = [w \in Workers |-> Idle]
    /\ summarized = [s \in SessionIds |-> {}]
    /\ pool = <<"s1", "s2">>
    /\ nextId = 0
    /\ last = Call("init", "", "")
    /\ cleared = {}

NextTwo ==
    \/ \E u \in Users : CreateSession(u, NEW_CHAT)
    \/ \E s \in SessionIds, u \in Users : DeleteSession(s, u)
    \/ \E s \in SessionIds, u \in Users, generated \in AiTexts, up2 \in BOOLEAN :
          SendCompleted(s, u, "hello", TRUE, generated, up2)
    \/ \E s \in SessionIds, u \in Users : SendModelRaises(s, u, "hello", TRUE)
    \/ \E s \in SessionIds, u \in Users : SendContentBlocked(s, u, "kill them")

SpecTwo == InitTwo /\ [][NextTwo]_vars

\* The automatic title: sends that complete, with contents of the lengths the
\* title rule tells apart
NextTitle ==
    \/ \E u \in Users, t \in Titles : CreateSession(u, t)
    \/ \E s \in SessionIds, u \in Users, t \in NewTitles : UpdateSessionTitle(s, u, t)
    \/ \E s \in SessionIds, u \in Users, c \in TitleTexts, generated \in AiTexts :
          SendCompleted(s, u, c, TRUE, generated, TRUE)

SpecTitle == Init /\ [][NextTitle]_vars

\* The automatic title after calls that fail: the operations of SpecTitle and
\* the sends that fail once the user row is committed
NextFirst ==
    \/ \E u \in Users, t \in Titles : CreateSession(u, t)
    \/ \E s \in SessionIds, u \in Users, t \in NewTitles : UpdateSessionTitle(s, u, t)
    \/ \E s \in SessionIds, u \in Users, c \in TitleTexts, generated \in AiTexts :
          SendCompleted(s, u, c, TRUE, generated, TRUE)
    \/ \E s \in SessionIds, u \in Users, c \in TitleTexts : SendModelRaises(s, u, c, TRUE)
    \/ \E s \in SessionIds, u \in Users, c \in TitleTexts : SendNoPipeline(s, u, c, TRUE)

SpecFirst == Init /\ [][NextFirst]_vars

---------------------------------------------------------------------------
(* Long sessions and anonymous sessions: a registered session that already   *)
(* holds rows, up to the page a listing returns by default and one more, and *)
(* an anonymous session, with sends that complete and listings.              *)

\* owner_id of an anonymous session, and the user_id an anonymous call passes
NoOwner == "None"

\* the session an anonymous token owns, as create_session(anon_session_id=...)
\* makes it: no registered owner
NewAnonSession(token, title) ==
    [owner_id |-> NoOwner, anon_session_id |-> token, title |-> title,
     is_blocked |-> FALSE, blocked_reason |-> "",
     conversation_summary |-> "", last_summary_message_id |-> NoId]

\* a lookup by token that never finds the token's session
FindAnonNever(sess, token) == {}

\* select(ChatSession).where(ChatSession.anon_session_id == token)
FindAnon(sess, token) ==
    {sid \in SessionIds :
        /\ Exists(sess, sid) /\ sess[sid].owner_id = NoOwner
        /\ sess[sid].anon_session_id = token}

\* create_anon_chat_session (POST /anon/session): the token's session, made
\* on the first call with the title of the body ("New Chat" when left out)
CreateAnonSession(token, title) ==
    /\ IF FindAnon(sessions, token) # {}
       THEN /\ last' = Call("create_anon_session",
                            CHOOSE sid \in FindAnon(sessions, token) : TRUE, "")
            /\ UNCHANGED <<sessions, pool>>
       ELSE /\ pool # <<>>
            /\ sessions' = [sessions EXCEPT
                               ![Head(pool)] = NewAnonSession(token, title)]
            /\ pool' = Tail(pool)
            /\ last' = Call("create_anon_session", Head(pool), "")
    /\ UNCHANGED <<messages, logs, chat_memory_map, chat_pipeline, stream, feature_flags, nextId, cleared,
                 pdf_documents, vectordb, background_tasks, requests, summarized>>

\* send_anon_chat_message (POST /anon/session/message): 404 without a session
\* of the token, else send_message on it for the anonymous actor
SendAnonMessage(token, content, generated, up, up2) ==
    IF FindAnon(sessions, token) = {}
    THEN /\ last' = Call("send_message", "", "NotFound")
         /\ UNCHANGED <<sessions, messages, logs, chat_memory_map, chat_pipeline, stream, feature_flags,
                        pool, nextId, cleared,
                 pdf_documents, vectordb, background_tasks, requests, summarized>>
    ELSE SendCompleted(CHOOSE sid \in FindAnon(sessions, token) : TRUE,
                       NoOwner, content, up, generated, up2)

\* rows a session holds from before: n rows, user and assistant in turn,
\* with serials below those of the rows inserted from now on
EarlierRows(sid, n) ==
    [i \in 1..n |->
        NewMessage(i - n - 1, sid, IF i % 2 = 1 THEN "user" ELSE "assistant",
                   StoredTexts[((i - 1) % Len(StoredTexts)) + 1])]

InitPage ==
    /\ \E n \in {0, DefaultLimit - 1, DefaultLimit} :
         /\ messages = EarlierRows("s1", n)
         /\ \E summary \in {"", "S1"} :
              /\ n = 0 => summary = ""
              /\ sessions = [s \in SessionIds |->
                    IF s = "s1"
                    THEN [NewSession("u1", "Trip") EXCEPT
                             !.conversation_summary = summary,
                             !.last_summary_message_id =
                                 IF summary = "" THEN NoId ELSE 0 - 2]
                    ELSE NoSession]
    /\ logs = <<>>
    /\ chat_memory_map = [s \in SessionIds |-> NoWindow]
    /\ chat_pipeline = TRUE
    /\ feature_flags = <<>>
    /\ stream = NoStream
    /\ pdf_documents = [p \in PdfIds |-> NoPdf]
    /\ vectordb = <<>>
    /\ background_tasks = <<>>
    /\ requests = [w \in Workers |-> Idle]
    /\ summarized = [s \in SessionIds |-> {}]
    /\ pool = <<"s2">>
    /\ nextId = 0
    /\ last = Call("init", "", "")
    /\ cleared = {}

NextPage ==
    \/ \E token \in AnonTokens : CreateAnonSession(token, NEW_CHAT)
    \/ \E token \in AnonTokens, c \in UserTexts, generated \in AiTexts :
          SendAnonMessage(token, c, generated, TRUE, TRUE)
    \/ \E s \in SessionIds, u \in Users, c \in UserTexts, generated \in AiTexts :
          SendCompleted(s, u, c, TRUE, generated, TRUE)
    \/ \E s \in SessionIds, u \in Users : ReadChatMessages(s, u)

SpecPage == InitPage /\ [][NextPage]_vars

\* Registered and anonymous sessions side by side: both create operations,
\* with and without a title, delete, and sends of both kinds of actor
NextAnon ==
    \/ \E u \in Users, t \in Titles : CreateSession(u, t)
    \/ \E token \in AnonTokens, t \in Titles : CreateAnonSession(token, t)
    \/ \E s \in SessionIds, u \in Users : DeleteSession(s, u)
    \/ \E token \in AnonTokens : SendAnonMessage(token, "hello", "reply", TRUE, TRUE)
    \/ \E s \in SessionIds, u \in Users :
          SendCompleted(s, u, "hello", TRUE, "reply", TRUE)

SpecAnon == InitTwo /\ [][NextAnon]_vars

---------------------------------------------------------------------------
(* The moderation gate on its own: filter_content called on texts for which  *)
(* the classifier answers any set of flags, or does not answer.              *)

\* filter_content(content, ...) and what it returned
Moderate(flags, up) ==
    /\ last' = [op |-> "filter_content", sid |-> "", err |-> "",
                flags |-> flags, up |-> up, result |-> FilterResult(flags, up)]
    /\ UNCHANGED <<sessions, messages, logs, chat_memory_map, chat_pipeline, stream, feature_flags,
                   pool, nextId, cleared,
                 pdf_documents, vectordb, background_tasks, requests, summarized>>

InitGate ==
    /\ sessions = [s \in SessionIds |-> NoSession]
    /\ messages = <<>>
    /\ logs = <<>>
    /\ chat_memory_map = [s \in SessionIds |-> NoWindow]
    /\ chat_pipeline = TRUE
    /\ feature_flags = <<>>
    /\ stream = NoStream
    /\ pdf_documents = [p \in PdfIds |-> NoPdf]
    /\ vectordb = <<>>
    /\ background_tasks = <<>>
    /\ requests = [w \in Workers |-> Idle]
    /\ summarized = [s \in SessionIds |-> {}]
    /\ pool = <<>>
    /\ nextId = 0
    /\ last = Call("init", "", "")
    /\ cleared = {}

NextGate == \E flags \in SUBSET ClassifierCategories, up \in BOOLEAN : Moderate(flags, up)

SpecGate == InitGate /\ [][NextGate]_vars

---------------------------------------------------------------------------
(* The memory manager on its own: a session with stored rows, and load,     *)
(* append and clear called one at a time on its window.                     *)

\* ConversationSummaryBufferMessageHistory(session_id, db, llm): __init__ runs
\* _load_from_database; _get_chat_history keeps the object in the map.  The
\* service builds one only for a session it has found.
Load(sid) ==
    /\ Exists(sessions, sid)
    /\ chat_memory_map' =
           [chat_memory_map EXCEPT ![sid] = LoadFromDatabase(sessions, messages, sid)]
    /\ last' = Call("load", sid, "")
    /\ UNCHANGED <<sessions, messages, logs, chat_pipeline, stream, feature_flags, pool, nextId, cleared,
                 pdf_documents, vectordb, background_tasks, requests, summarized>>

\* add_message(m) on the window of the map; out is what the summarization call
\* does.  add_messages catches every exception, so the call always returns.
AddMessage(sid, m, out) ==
    /\ chat_memory_map[sid] # NoWindow
    /\ out \in SummaryOutcomes(chat_memory_map[sid], <<m>>)
    /\ LET added == AddMessages(chat_memory_map[sid], <<m>>, out)
       IN  /\ chat_memory_map' = [chat_memory_map EXCEPT ![sid] = added.messages]
           /\ sessions' = AddToStore(sessions, messages, sid, added)
    /\ last' = Call("add_message", sid, "")
    /\ cleared' = cleared \ {sid}
    /\ UNCHANGED <<messages, logs, chat_pipeline, stream, feature_flags, pool, nextId,
                 pdf_documents, vectordb, background_tasks, requests, summarized>>

\* clear
Clear(sid) ==
    /\ chat_memory_map[sid] # NoWindow
    /\ chat_memory_map' = [chat_memory_map EXCEPT ![sid] = <<>>]
    /\ sessions' = ClearStore(sessions, sid)
    /\ last' = Call("clear", sid, "")
    /\ cleared' = cleared \cup {sid}
    /\ UNCHANGED <<messages, logs, chat_pipeline, stream, feature_flags, pool, nextId,
                 pdf_documents, vectordb, background_tasks, requests, summarized>>

\* the rows a session holds after n inserts: user and assistant rows in turn
StoredRows(sid, n) ==
    [i \in 1..n |-> NewMessage(i, sid, IF i % 2 = 1 THEN "user" ELSE "assistant",
                               StoredTexts[i])]

\* A session as the service leaves it: n rows, and a summary only once enough
\* rows exist for a window to have overflowed
InitMem ==
    /\ \E n \in 0..MaxStored :
         /\ messages = StoredRows("s1", n)
         /\ nextId = n
         /\ \E summary \in Summaries \cup {""}, marker \in 0..n :
              /\ summary = "" => marker = NoId
              /\ summary # "" => n >= K - 1 /\ marker >= K - 1
              /\ sessions = [s \in SessionIds |->
                    IF s = "s1"
                    THEN [NewSession("u1", "Trip") EXCEPT
                             !.conversation_summary = summary,
                             !.last_summary_message_id = marker]
                    ELSE NoSession]
    /\ logs = <<>>
    /\ chat_memory_map = [s \in SessionIds |-> NoWindow]
    /\ chat_pipeline = TRUE
    /\ feature_flags = <<>>
    /\ stream = NoStream
    /\ pdf_documents = [p \in PdfIds |-> NoPdf]
    /\ vectordb = <<>>
    /\ background_tasks = <<>>
    /\ requests = [w \in Workers |-> Idle]
    /\ summarized = [s \in SessionIds |-> {}]
    /\ pool = <<>>
    /\ last = Call("init", "", "")
    /\ cleared = {}

NextMem ==
    \/ \E s \in SessionIds : Load(s)
    \/ \E s \in SessionIds, m \in AppendedTurns, out \in Summaries \cup {"raise", "unused"} :
          AddMessage(s, m, out)
    \/ \E s \in SessionIds : Clear(s)

SpecMem == InitMem /\ [][NextMem]_vars

\* CONVERSATION_SUMMARY_SYSTEM_PROMPT: "Keep the summary under 200 words."
SUMMARY_WORDS == 200

RECURSIVE Repeated(_, _)
\* " ".join([word] * n)
Repeated(word, n) ==
    IF n = 0 THEN ""
    ELSE IF n = 1 THEN word
    ELSE word \o " " \o Repeated(word, n - 1)

\* a text of one word more than the model is asked to keep to
LongSummary == Repeated("so", SUMMARY_WORDS + 1)

\* add_message(m) that evicts, the summarization call returning the long
\* text: new_summary.content is stored and put at the head as it comes
AddMessageOverrun(sid, m) ==
    /\ chat_memory_map[sid] # NoWindow
    /\ Len(Turns(chat_memory_map[sid]) \o <<m>>) > K
    /\ LET added == AddMessages(chat_memory_map[sid], <<m>>, LongSummary)
       IN  /\ chat_memory_map' = [chat_memory_map EXCEPT ![sid] = added.messages]
           /\ sessions' = AddToStore(sessions, messages, sid, added)
    /\ last' = Call("add_message", sid, "")
    /\ cleared' = cleared \ {sid}
    /\ UNCHANGED <<messages, logs, chat_pipeline, stream, feature_flags, pool, nextId,
                   pdf_documents, vectordb, background_tasks, requests, summarized>>

\* The memory manager with a model that may overrun: the operations of
\* SpecMem, and appends whose summarization returns the long text
NextLong ==
    \/ \E s \in SessionIds : Load(s)
    \/ \E s \in SessionIds, m \in AppendedTurns, out \in {"S1", "raise", "unused"} :
          AddMessage(s, m, out)
    \/ \E s \in SessionIds, m \in AppendedTurns : AddMessageOverrun(s, m)
    \/ \E s \in SessionIds : Clear(s)

SpecLong == InitMem /\ [][NextLong]_vars

---------------------------------------------------------------------------
(* The blocked-input branch of send_message over a store whose commits may  *)
(* fail: log_violation and block_chat_session each commit on their own.     *)

\* rows the contentfilterlog table may hold in the runs explored
MaxLogs == 3

\* send_message: the gate blocks the user's content; log_commits and
\* block_commits tell whether the commit in log_violation and the one in
\* block_chat_session go through.  log_violation rolls back and raises when
\* its commit fails, and send_message rolls back and raises in turn;
\* block_chat_session rolls back and returns False, which send_message does
\* not look at.
SendContentBlockedWrites(sid, user_id, content, log_commits, block_commits) ==
    /\ FindOwned(sessions, sid, user_id)
    /\ ~IsBlocked(sessions, sid)
    /\ Len(logs) < MaxLogs
    /\ LET filter_result == FilterContent(content, TRUE)
       IN  /\ ~filter_result.is_allowed
           /\ IF ~log_commits
              THEN /\ last' = Call("send_message", sid, "DatabaseError")
                   /\ UNCHANGED <<logs, sessions>>
              ELSE /\ logs' = LogViolation(logs, user_id, sid, "user_input",
                                           content, filter_result.blocked_reason)
                   /\ sessions' =
                          IF block_commits
                          THEN BlockChatSession(sessions, sid,
                                                filter_result.blocked_reason)
                          ELSE sessions
                   /\ last' = Call("send_message", sid, "ContentBlocked")
    /\ UNCHANGED <<messages, chat_memory_map, chat_pipeline, feature_flags,
                   stream, pool, nextId, cleared,
                 pdf_documents, vectordb, background_tasks, requests, summarized>>

NextWrites ==
    \/ \E u \in Users, t \in Titles : CreateSession(u, t)
    \/ \E s \in SessionIds, u \in Users, c \in UserTexts,
          log_commits \in BOOLEAN, block_commits \in BOOLEAN :
          SendContentBlockedWrites(s, u, c, log_commits, block_commits)
    \/ \E s \in SessionIds, u \in Users, c \in UserTexts : SendBlocked(s, u, c)
    \/ \E s \in SessionIds, u \in Users, c \in UserTexts, generated \in AiTexts :
          SendCompleted(s, u, c, TRUE, generated, TRUE)
    \/ \E s \in SessionIds, u \in Users : DeleteSession(s, u)

SpecWrites == Init /\ [][NextWrites]_vars

---------------------------------------------------------------------------
(* The streamed reply: the steps of send_message around the model call, and *)
(* the streaming variant that runs them around a reply that arrives in      *)
(* fragments.                                                               *)

\* the fragments the model's reply arrives in
Fragmentations == {<<"reply">>, <<"re", "ply">>, <<"sm", "ut">>}

\* what closes the sequence of fragments sent to the caller
END_OF_STREAM == "[DONE]"

\* the store and the windows, as one value
Snapshot ==
    [sessions |-> sessions, messages |-> messages, logs |-> logs,
     chat_memory_map |-> chat_memory_map, nextId |-> nextId]

\* send_message from the commit of the user row to the model call: the row,
\* the window fetched (loaded on first use) and the user turn added to it
SendBeforeModel(st, sid, content, out1) ==
    LET msgs1 == Append(st.messages, NewMessage(st.nextId + 1, sid, "user", content))
        chat_history == IF st.chat_memory_map[sid] = NoWindow
                        THEN LoadFromDatabase(st.sessions, msgs1, sid)
                        ELSE st.chat_memory_map[sid]
        added1 == AddMessages(chat_history, <<HumanMessage(content)>>, out1)
    IN  [st EXCEPT !.messages = msgs1,
                   !.nextId = st.nextId + 1,
                   !.sessions = AddToStore(st.sessions, msgs1, sid, added1),
                   !.chat_memory_map = [st.chat_memory_map EXCEPT
                                           ![sid] = added1.messages]]

\* send_message after the model call: the generated text is moderated, put
\* into the window and persisted, and the title derived
SendAfterModel(st, sid, user_id, content, generated, up2, out2) ==
    LET ai_filter_result == FilterContent(generated, up2)
        ai_content == OutgoingText(ai_filter_result, generated)
        sess2 == IF ai_filter_result.is_allowed THEN st.sessions
                 ELSE BlockChatSession(st.sessions, sid,
                                       ai_filter_result.blocked_reason)
        added2 == AddMessages(st.chat_memory_map[sid], <<AIMessage(ai_content)>>, out2)
        sess3 == AddToStore(sess2, st.messages, sid, added2)
    IN  [sessions |-> [sess3 EXCEPT ![sid].title =
                          IF sess3[sid].title = NEW_CHAT
                          THEN AutoTitle(content) ELSE sess3[sid].title],
         messages |-> Append(st.messages,
                             NewMessage(st.nextId + 1, sid, "assistant", ai_content)),
         logs |-> IF ai_filter_result.is_allowed THEN st.logs
                  ELSE LogViolation(st.logs, user_id, sid, "ai_response",
                                    generated, ai_filter_result.blocked_reason),
         chat_memory_map |-> [st.chat_memory_map EXCEPT ![sid] = added2.messages],
         nextId |-> st.nextId + 1]

\* the store and the windows become those of st
Becomes(st) ==
    /\ sessions' = st.sessions
    /\ messages' = st.messages
    /\ logs' = st.logs
    /\ chat_memory_map' = st.chat_memory_map
    /\ nextId' = st.nextId

\* stream_chat_message (POST /sessions/{session_id}/stream): an error text
\* for a session that is not the caller's, else stream_message is started:
\* the steps of send_message up to the model call
StreamStart(sid, user_id, content, fragments) ==
    /\ stream = NoStream
    /\ IF ~FindOwned(sessions, sid, user_id)
       THEN /\ last' = [op |-> "stream_message", sid |-> sid, err |-> "NotFound",
                        out |-> <<"Session not found or access denied.">>]
            /\ UNCHANGED <<sessions, messages, logs, chat_memory_map, nextId,
                           stream, cleared>>
       ELSE /\ ~IsBlocked(sessions, sid)
            /\ FilterContent(content, TRUE).is_allowed
            /\ chat_pipeline
            /\ nextId + 2 <= MaxMsgs
            /\ \E out1 \in Summaries \cup {"raise"} :
                  Becomes(SendBeforeModel(Snapshot, sid, content, out1))
            /\ stream' = [phase |-> "generating", sid |-> sid, user_id |-> user_id,
                          content |-> content, pending |-> fragments,
                          text |-> "", out |-> <<>>, before |-> Snapshot]
            /\ cleared' = cleared \ {sid}
            /\ UNCHANGED last
    /\ UNCHANGED <<chat_pipeline, feature_flags, pool,
                 pdf_documents, vectordb, background_tasks, requests, summarized>>

\* a fragment arrives from the model: it is passed on and added to the text
StreamFragment ==
    /\ stream.phase = "generating"
    /\ stream.pending # <<>>
    /\ stream' = [stream EXCEPT !.pending = Tail(stream.pending),
                                !.text = stream.text \o Head(stream.pending),
                                !.out = Append(stream.out, Head(stream.pending))]
    /\ UNCHANGED <<sessions, messages, logs, chat_memory_map, chat_pipeline,
                   feature_flags, pool, nextId, last, cleared,
                 pdf_documents, vectordb, background_tasks, requests, summarized>>

\* a streamed reply whose every fragment is moderated as it arrives: the
\* steps after the model call run on the last fragment
StreamFinishOnLastFragment(up2) ==
    /\ stream.phase = "generating"
    /\ stream.pending = <<>>
    /\ \E out2 \in Summaries \cup {"raise"} :
          Becomes(SendAfterModel(Snapshot, stream.sid, stream.user_id,
                                 stream.content, stream.out[Len(stream.out)],
                                 up2, out2))
    /\ stream' = [stream EXCEPT !.phase = "persisted"]
    /\ UNCHANGED <<chat_pipeline, feature_flags, pool, last, cleared,
                 pdf_documents, vectordb, background_tasks, requests, summarized>>

\* the model has no more fragments: the steps of send_message after the
\* model call run on the assembled text
StreamFinish(up2) ==
    /\ stream.phase = "generating"
    /\ stream.pending = <<>>
    /\ \E out2 \in Summaries \cup {"raise"} :
          Becomes(SendAfterModel(Snapshot, stream.sid, stream.user_id,
                                 stream.content, stream.text, up2, out2))
    /\ stream' = [stream EXCEPT !.phase = "persisted"]
    /\ UNCHANGED <<chat_pipeline, feature_flags, pool, last, cleared,
                 pdf_documents, vectordb, background_tasks, requests, summarized>>

\* the end marker closes the stream
StreamEnd ==
    /\ stream.phase = "persisted"
    /\ last' = [op |-> "stream_message", sid |-> stream.sid, err |-> "",
                out |-> Append(stream.out, END_OF_STREAM)]
    /\ stream' = NoStream
    /\ UNCHANGED <<sessions, messages, logs, chat_memory_map, chat_pipeline,
                   feature_flags, pool, nextId, cleared,
                 pdf_documents, vectordb, background_tasks, requests, summarized>>

\* One worker: a request is taken when no stream is in flight
NextStream ==
    \/ \E u \in Users : stream = NoStream /\ CreateSession(u, NEW_CHAT)
    \/ \E s \in SessionIds, u \in Users, generated \in AiTexts :
          stream = NoStream /\ SendCompleted(s, u, "hello", TRUE, generated, TRUE)
    \/ \E s \in SessionIds, u \in Users, fragments \in Fragmentations :
          StreamStart(s, u, "hello", fragments)
    \/ StreamFragment
    \/ \E up2 \in BOOLEAN : StreamFinish(up2)
    \/ StreamEnd

SpecStream == InitPage /\ [][NextStream]_vars

---------------------------------------------------------------------------
(* The feature flag registry: FeatureFlagService and its admin routes *)

\* rows the featureflag table may hold in the runs explored
MaxFlags == 7

\* row ids uuid4 may issue
FlagIds == 1..(MaxFlags + 1)

\* self.predefined_flags, in the order of the dict
PredefinedFlags ==
    << [name |-> "Spiritual Parenting",
        description |-> "Enable parenting-focused spiritual guidance and family-oriented advice for raising children with spiritual values.",
        is_enabled |-> FALSE],
       [name |-> "Grief Support",
        description |-> "Enable grief counseling and loss support features to help users through difficult times with spiritual comfort.",
        is_enabled |-> FALSE],
       [name |-> "Meditation Guidance",
        description |-> "Enable meditation techniques and mindfulness practices to help users develop spiritual awareness and inner peace.",
        is_enabled |-> FALSE],
       [name |-> "Scripture Study",
        description |-> "Enable in-depth scripture analysis and biblical interpretation for deeper understanding of religious texts.",
        is_enabled |-> FALSE],
       [name |-> "Prayer Requests",
        description |-> "Enable prayer request features and spiritual intercession support for community prayer needs.",
        is_enabled |-> FALSE],
       [name |-> "Community Features",
        description |-> "Enable group discussions and community sharing features for spiritual fellowship.",
        is_enabled |-> FALSE] >>

\* what the admin sends: names and descriptions for create, changes for update
FlagNames == {"Grief Support", "Lent"}
FlagDescriptions == {"Fasting"}
FlagChanges ==
    { [name |-> "Lent"], [description |-> "Fasting"], [is_enabled |-> TRUE] }

\* the ids the admin names: the first two rows, the first row past the seed
\* flags, and an id no row has
AdminFlagIds == {1, 2, Len(PredefinedFlags) + 1, MaxFlags + 1}

\* a field of FeatureFlagUpdate is given (is not None)
Given(flag_data, field) == field \in DOMAIN flag_data

\* FeatureFlag(name=..., description=..., is_enabled=..., is_predefined=...)
FeatureFlag(id, name, description, is_enabled, is_predefined) ==
    [id |-> id, name |-> name, description |-> description,
     is_enabled |-> is_enabled, is_predefined |-> is_predefined]

\* uuid4: an id no row of the table has
NewFlagId(flags) ==
    CHOOSE id \in FlagIds :
        /\ \A i \in 1..Len(flags) : flags[i].id # id
        /\ \A other \in FlagIds :
              (\A i \in 1..Len(flags) : flags[i].id # other) => id <= other

\* select(FeatureFlag).where(FeatureFlag.name == name).first(): the place of
\* the row in the table, 0 for None
FlagNamed(flags, name) ==
    IF \E i \in 1..Len(flags) : flags[i].name = name
    THEN CHOOSE i \in 1..Len(flags) :
            /\ flags[i].name = name
            /\ \A j \in 1..(i - 1) : flags[j].name # name
    ELSE 0

\* db.get(FeatureFlag, flag_id): the place of the row, 0 for None
FlagAt(flags, flag_id) ==
    IF \E i \in 1..Len(flags) : flags[i].id = flag_id
    THEN CHOOSE i \in 1..Len(flags) : flags[i].id = flag_id
    ELSE 0

\* the body of the loop of initialize_predefined_flags that also resets
\* is_enabled of the row it finds
InitializeOneResetsEnabled(flags, flag_data) ==
    LET existing_flag == FlagNamed(flags, flag_data.name)
    IN  IF existing_flag = 0
        THEN Append(flags, FeatureFlag(NewFlagId(flags), flag_data.name,
                                       flag_data.description,
                                       flag_data.is_enabled, TRUE))
        ELSE [flags EXCEPT ![existing_flag].description = flag_data.description,
                           ![existing_flag].is_enabled = flag_data.is_enabled]

\* the body of the loop of initialize_predefined_flags for one seed flag
InitializeOne(flags, flag_data) ==
    LET existing_flag == FlagNamed(flags, flag_data.name)
    IN  IF existing_flag = 0
        THEN Append(flags, FeatureFlag(NewFlagId(flags), flag_data.name,
                                       flag_data.description,
                                       flag_data.is_enabled, TRUE))
        ELSE IF flags[existing_flag].description # flag_data.description
             THEN [flags EXCEPT ![existing_flag].description = flag_data.description]
             ELSE flags

\* initialize_predefined_flags: the loop over the first n seed flags
RECURSIVE InitializeFirst(_, _)
InitializeFirst(flags, n) ==
    IF n = 0 THEN flags
    ELSE InitializeOne(InitializeFirst(flags, n - 1), PredefinedFlags[n])

\* initialize_predefined_flags: the table it commits
InitializePredefined(flags) == InitializeFirst(flags, Len(PredefinedFlags))

\* the table without the row at place i
WithoutRow(flags, i) ==
    SubSeq(flags, 1, i - 1) \o SubSeq(flags, i + 1, Len(flags))

\* delete_flag that deletes the row whatever its is_predefined
DeleteFlagAnyRow(flags, flag_id) ==
    LET flag == FlagAt(flags, flag_id)
    IN  IF flag = 0 THEN [flags |-> flags, success |-> FALSE]
        ELSE [flags |-> WithoutRow(flags, flag), success |-> TRUE]

\* delete_flag: the table it leaves and the bool it returns
DeleteFlag(flags, flag_id) ==
    LET flag == FlagAt(flags, flag_id)
    IN  IF flag = 0 THEN [flags |-> flags, success |-> FALSE]
        ELSE IF flags[flag].is_predefined
             THEN [flags |-> flags, success |-> FALSE]
             ELSE [flags |-> WithoutRow(flags, flag), success |-> TRUE]

\* what the caller of a flag route sees: the route and the HTTP status
FlagCall(op, status) == [op |-> op, sid |-> "", err |-> "", status |-> status]

\* the admin check every flag route but /active starts with
NotSuperuser(op) ==
    /\ last' = FlagCall(op, 403)
    /\ UNCHANGED feature_flags

\* POST /feature-flags/initialize, and init_db on a table without rows
InitializePredefinedFlags(is_superuser) ==
    /\ IF ~is_superuser THEN NotSuperuser("initialize_predefined_flags")
       ELSE /\ Len(InitializePredefined(feature_flags)) <= MaxFlags
            /\ feature_flags' = InitializePredefined(feature_flags)
            /\ last' = FlagCall("initialize_predefined_flags", 200)
    /\ UNCHANGED <<sessions, messages, logs, chat_memory_map, chat_pipeline, stream,
                   pool, nextId, cleared,
                 pdf_documents, vectordb, background_tasks, requests, summarized>>

\* POST /feature-flags/: create_flag
CreateFeatureFlag(is_superuser, name, description) ==
    /\ IF ~is_superuser THEN NotSuperuser("create_feature_flag")
       ELSE IF FlagNamed(feature_flags, name) # 0
            THEN /\ last' = FlagCall("create_feature_flag", 400)
                 /\ UNCHANGED feature_flags
            ELSE /\ Len(feature_flags) < MaxFlags
                 /\ feature_flags' =
                        Append(feature_flags,
                               FeatureFlag(NewFlagId(feature_flags), name,
                                           description, TRUE, FALSE))
                 /\ last' = FlagCall("create_feature_flag", 200)
    /\ UNCHANGED <<sessions, messages, logs, chat_memory_map, chat_pipeline, stream,
                   pool, nextId, cleared,
                 pdf_documents, vectordb, background_tasks, requests, summarized>>

\* PUT /feature-flags/{flag_id}: update_flag
UpdateFeatureFlag(is_superuser, flag_id, flag_data) ==
    /\ IF ~is_superuser THEN NotSuperuser("update_feature_flag")
       ELSE LET flag == FlagAt(feature_flags, flag_id)
            IN  IF \/ flag = 0
                   \/ /\ Given(flag_data, "name")
                      /\ flag_data.name # feature_flags[flag].name
                      /\ FlagNamed(feature_flags, flag_data.name) # 0
                THEN /\ last' = FlagCall("update_feature_flag", 404)
                     /\ UNCHANGED feature_flags
                ELSE /\ feature_flags' =
                            [feature_flags EXCEPT
                               ![flag].name =
                                   IF Given(flag_data, "name")
                                   THEN flag_data.name ELSE @,
                               ![flag].description =
                                   IF Given(flag_data, "description")
                                   THEN flag_data.description ELSE @,
                               ![flag].is_enabled =
                                   IF Given(flag_data, "is_enabled")
                                   THEN flag_data.is_enabled ELSE @]
                     /\ last' = FlagCall("update_feature_flag", 200)
    /\ UNCHANGED <<sessions, messages, logs, chat_memory_map, chat_pipeline, stream,
                   pool, nextId, cleared,
                 pdf_documents, vectordb, background_tasks, requests, summarized>>

\* POST /feature-flags/{flag_id}/toggle: toggle_flag
ToggleFeatureFlag(is_superuser, flag_id) ==
    /\ IF ~is_superuser THEN NotSuperuser("toggle_feature_flag")
       ELSE LET flag == FlagAt(feature_flags, flag_id)
            IN  IF flag = 0
                THEN /\ last' = FlagCall("toggle_feature_flag", 404)
                     /\ UNCHANGED feature_flags
                ELSE /\ feature_flags' =
                            [feature_flags EXCEPT
                               ![flag].is_enabled = ~feature_flags[flag].is_enabled]
                     /\ last' = FlagCall("toggle_feature_flag", 200)
    /\ UNCHANGED <<sessions, messages, logs, chat_memory_map, chat_pipeline, stream,
                   pool, nextId, cleared,
                 pdf_documents, vectordb, background_tasks, requests, summarized>>

\* the status delete_feature_flag answers an admin with: 404 when delete_flag
\* returns False
DeleteFlagStatus(flags, flag_id) ==
    IF DeleteFlag(flags, flag_id).success THEN 200 ELSE 404

\* DELETE /feature-flags/{flag_id}
DeleteFeatureFlag(is_superuser, flag_id) ==
    /\ IF ~is_superuser THEN NotSuperuser("delete_feature_flag")
       ELSE /\ feature_flags' = DeleteFlag(feature_flags, flag_id).flags
            /\ last' = FlagCall("delete_feature_flag",
                                DeleteFlagStatus(feature_flags, flag_id))
    /\ UNCHANGED <<sessions, messages, logs, chat_memory_map, chat_pipeline, stream,
                   pool, nextId, cleared,
                 pdf_documents, vectordb, background_tasks, requests, summarized>>

\* the registry before init_db has seeded it
InitFlags ==
    /\ sessions = [s \in SessionIds |-> NoSession]
    /\ messages = <<>>
    /\ logs = <<>>
    /\ chat_memory_map = [s \in SessionIds |-> NoWindow]
    /\ chat_pipeline = TRUE
    /\ feature_flags = <<>>
    /\ stream = NoStream
    /\ pdf_documents = [p \in PdfIds |-> NoPdf]
    /\ vectordb = <<>>
    /\ background_tasks = <<>>
    /\ requests = [w \in Workers |-> Idle]
    /\ summarized = [s \in SessionIds |-> {}]
    /\ pool = <<>>
    /\ nextId = 0
    /\ last = Call("init", "", "")
    /\ cleared = {}

NextFlags ==
    \/ \E is_superuser \in BOOLEAN : InitializePredefinedFlags(is_superuser)
    \/ \E is_superuser \in BOOLEAN, name \in FlagNames, description \in FlagDescriptions :
          CreateFeatureFlag(is_superuser, name, description)
    \/ \E is_superuser \in BOOLEAN, flag_id \in AdminFlagIds, flag_data \in FlagChanges :
          UpdateFeatureFlag(is_superuser, flag_id, flag_data)
    \/ \E is_superuser \in BOOLEAN, flag_id \in AdminFlagIds :
          ToggleFeatureFlag(is_superuser, flag_id)
    \/ \E is_superuser \in BOOLEAN, flag_id \in AdminFlagIds :
          DeleteFeatureFlag(is_superuser, flag_id)

SpecFlags == InitFlags /\ [][NextFlags]_vars

---------------------------------------------------------------------------
(* The document store: the PDF routes, PDFService.process_pdf and           *)
(* reprocess_pdf as background tasks, and the chunks they put into the      *)
(* vector store. The relational store's commits succeed here.               *)

\* tasks that may wait or run at the same time
MaxTasks == 1

\* chunks the vector store may hold
MaxChunks == 3

\* the uploads: the title given in the form and the name of the file (lower
\* case, as the suffix is compared after lower())
PsalmsUpload == [title |-> "Psalms", filename |-> "psalms.pdf"]
Uploads == {[title |-> "Rome", filename |-> "rome.pdf"],
            PsalmsUpload,
            [title |-> "Blank", filename |-> "blank.pdf"],
            [title |-> "Notes", filename |-> "notes.txt"]}

\* what PyPDFLoader reads from a stored file: the text of each page
PdfPages(filename) ==
    CASE filename = "rome.pdf" -> <<"Appius built the aqueducts">>
      [] filename = "psalms.pdf" -> <<"The Lord is my shepherd", "He leads me">>
      [] OTHER -> <<>>

\* file.filename.lower().endswith(".pdf")
IsPdfName(filename) ==
    /\ Len(filename) >= 4
    /\ SubSeq(filename, Len(filename) - 3, Len(filename)) = ".pdf"

\* PDFDocument(..., page_count=0, is_processed=False,
\*             processing_status="pending", owner_id=current_user.id)
NewPdfDocument(title, filename, owner_id) ==
    [title |-> title, filename |-> filename, page_count |-> 0,
     is_processed |-> FALSE, processing_status |-> "pending",
     error_message |-> "None", owner_id |-> owner_id]

\* uuid4 for a new row: an id no row has
NewPdfId(docs) == CHOOSE p \in PdfIds : docs[p] = NoPdf

\* the chunks of a document, each page short enough to be one chunk, with
\* the metadata process_pdf gives them
Chunks(pdf_document, pdf_id) ==
    LET pages == PdfPages(pdf_document.filename)
    IN  [i \in 1..Len(pages) |->
            [pdf_id |-> pdf_id, pdf_title |-> pdf_document.title,
             owner_id |-> pdf_document.owner_id, page_content |-> pages[i],
             chunk_index |-> i - 1]]

\* delete_pdf_embeddings: vectordb.delete(where={"pdf_id": str(pdf_id)})
DeletePdfEmbeddings(vdb, pdf_id) ==
    LET Other(chunk) == chunk.pdf_id # pdf_id
    IN  SelectSeq(vdb, Other)

\* what a PDF route or task answers
PdfCall(op, pdf_id, status) ==
    [op |-> op, sid |-> "", err |-> "", pdf_id |-> pdf_id, status |-> status]

\* background_tasks.add_task(...)
AddTask(tasks, task, pdf_id) ==
    Append(tasks, [task |-> task, pdf_id |-> pdf_id, pc |-> "scheduled"])

\* the tasks without the i-th, which has returned
WithoutTask(tasks, i) ==
    SubSeq(tasks, 1, i - 1) \o SubSeq(tasks, i + 1, Len(tasks))

\* POST /pdfs/
CreatePdfDocument(current_user, is_superuser, upload) ==
    /\ IF ~is_superuser
       THEN /\ last' = PdfCall("create_pdf_document", "", 403)
            /\ UNCHANGED <<pdf_documents, background_tasks>>
       ELSE IF ~IsPdfName(upload.filename)
       THEN /\ last' = PdfCall("create_pdf_document", "", 400)
            /\ UNCHANGED <<pdf_documents, background_tasks>>
       ELSE /\ \E p \in PdfIds : pdf_documents[p] = NoPdf
            /\ Len(background_tasks) < MaxTasks
            /\ LET pdf_id == NewPdfId(pdf_documents)
               IN  /\ pdf_documents' =
                          [pdf_documents EXCEPT ![pdf_id] =
                              NewPdfDocument(upload.title, upload.filename,
                                             current_user)]
                   /\ background_tasks' =
                          AddTask(background_tasks, "process_pdf", pdf_id)
                   /\ last' = PdfCall("create_pdf_document", pdf_id, 200)
    /\ UNCHANGED <<sessions, messages, logs, chat_memory_map, chat_pipeline,
                   feature_flags, stream, vectordb, requests, pool, nextId,
                   cleared, summarized>>

\* POST /pdfs/{pdf_id}/reprocess
ReprocessPdfDocument(is_superuser, pdf_id) ==
    /\ IF ~is_superuser
       THEN /\ last' = PdfCall("reprocess_pdf_document", pdf_id, 403)
            /\ UNCHANGED background_tasks
       ELSE IF pdf_documents[pdf_id] = NoPdf
       THEN /\ last' = PdfCall("reprocess_pdf_document", pdf_id, 404)
            /\ UNCHANGED background_tasks
       ELSE /\ Len(background_tasks) < MaxTasks
            /\ background_tasks' =
                   AddTask(background_tasks, "reprocess_pdf", pdf_id)
            /\ last' = PdfCall("reprocess_pdf_document", pdf_id, 200)
    /\ UNCHANGED <<sessions, messages, logs, chat_memory_map, chat_pipeline,
                   feature_flags, stream, pdf_documents, vectordb, requests,
                   pool, nextId, cleared, summarized>>

\* process_pdf, its first commit: processing_status = "processing"
MarkedProcessing(pdf_document) ==
    [pdf_document EXCEPT !.processing_status = "processing"]

\* process_pdf, its last commit: is_processed, "completed" and the page count
MarkedCompleted(pdf_document) ==
    [pdf_document EXCEPT !.is_processed = TRUE,
                         !.processing_status = "completed",
                         !.page_count = Len(PdfPages(pdf_document.filename))]

\* process_pdf, the commit of its except clause
MarkedFailed(pdf_document, error) ==
    [pdf_document EXCEPT !.processing_status = "failed",
                         !.error_message = error]

\* a scheduled task starts. reprocess_pdf first deletes the document's
\* embeddings (a failure of that is logged and passed over); then process_pdf
\* commits the status "processing"
StartTask(i, delete_ok) ==
    /\ i \in 1..Len(background_tasks)
    /\ background_tasks[i].pc = "scheduled"
    /\ LET pdf_id == background_tasks[i].pdf_id
       IN  /\ vectordb' =
                  IF background_tasks[i].task = "reprocess_pdf" /\ delete_ok
                  THEN DeletePdfEmbeddings(vectordb, pdf_id) ELSE vectordb
           /\ pdf_documents' =
                  [pdf_documents EXCEPT ![pdf_id] = MarkedProcessing(pdf_documents[pdf_id])]
           /\ last' = PdfCall(background_tasks[i].task, pdf_id, "processing")
    /\ background_tasks' = [background_tasks EXCEPT ![i].pc = "processing"]
    /\ UNCHANGED <<sessions, messages, logs, chat_memory_map, chat_pipeline,
                   feature_flags, stream, requests, pool, nextId, cleared, summarized>>

\* a started task runs to its end: a stored file that is gone or has no page
\* fails the run; otherwise the chunks go into the vector store, unless the
\* store is not there or refuses them, and the document is marked processed
FinishTask(i, file_exists, saved) ==
    /\ i \in 1..Len(background_tasks)
    /\ background_tasks[i].pc = "processing"
    /\ LET pdf_id == background_tasks[i].pdf_id
           pdf_document == pdf_documents[pdf_id]
           chunks == Chunks(pdf_document, pdf_id)
       IN  IF ~file_exists
           THEN /\ pdf_documents' = [pdf_documents EXCEPT ![pdf_id] =
                        MarkedFailed(pdf_document, "PDF file not found")]
                /\ last' = PdfCall(background_tasks[i].task, pdf_id, "error")
                /\ UNCHANGED vectordb
           ELSE IF PdfPages(pdf_document.filename) = <<>>
           THEN /\ pdf_documents' = [pdf_documents EXCEPT ![pdf_id] =
                        MarkedFailed(pdf_document, "No documents found in PDF")]
                /\ last' = PdfCall(background_tasks[i].task, pdf_id, "error")
                /\ UNCHANGED vectordb
           ELSE /\ saved => Len(vectordb) + Len(chunks) <= MaxChunks
                /\ vectordb' = IF saved THEN vectordb \o chunks ELSE vectordb
                /\ pdf_documents' = [pdf_documents EXCEPT ![pdf_id] =
                                        MarkedCompleted(pdf_document)]
                /\ last' = PdfCall(background_tasks[i].task, pdf_id, "success")
    /\ background_tasks' = WithoutTask(background_tasks, i)
    /\ UNCHANGED <<sessions, messages, logs, chat_memory_map, chat_pipeline,
                   feature_flags, stream, requests, pool, nextId, cleared, summarized>>

\* One administrator uploads; the files are one that is read, one without a
\* page and one that is no PDF
NextPdf ==
    \/ \E is_superuser \in BOOLEAN, upload \in Uploads \ {PsalmsUpload} :
          CreatePdfDocument("u1", is_superuser, upload)
    \/ \E is_superuser \in BOOLEAN, p \in PdfIds : ReprocessPdfDocument(is_superuser, p)
    \/ \E i \in 1..MaxTasks, delete_ok \in BOOLEAN : StartTask(i, delete_ok)
    \/ \E i \in 1..MaxTasks, file_exists \in BOOLEAN, saved \in BOOLEAN :
          FinishTask(i, file_exists, saved)

SpecPdf == InitFlags /\ [][NextPdf]_vars

---------------------------------------------------------------------------
(* Retrieval and the prompt: ChatService._get_pdf_context, the prompt text  *)
(* of the active feature flags, and send_message composing the model's      *)
(* input from them.                                                         *)

\* _get_pdf_context(user_id, query, limit=3), and content = page_content[:500]
RetrievalLimit == 3
ExcerptMax == 500

FEATURE_FLAG_ACTIVE_HEADER == "Active Feature Flags:"
FEATURE_FLAG_INSTRUCTIONS == "Instructions:\n1. If the user's request relates to any of the above active features, ..."
UNAVAILABLE_LIST_INTRO == "If a user's request is not available, respond with the unavailable message and then append this list of available features:"
CONTEXT_HEADER == "Context from your documents:\n"
QUESTION_HEADER == "\n\nUser question: "
CITE_INSTRUCTION == "\n\nPlease search the provided context and cite specific passages when answering."

\* what a user asks: a greeting, and a question a stored page answers
Questions == {"hello", "Who built the aqueducts?"}

\* how the retrieval call of one send_message goes: ChatService has no vector
\* store, the call raises, or it answers
RetrievalOutcomes == {"no_vectordb", "raises", "answers"}

\* the distance the embedding puts between a query and a chunk's text
Distance(query, page_content) ==
    IF query = "Who built the aqueducts?"
       /\ page_content = "Appius built the aqueducts"
    THEN 0 ELSE 1

\* retriever.get_relevant_documents(query) with search_kwargs {"k": limit}:
\* the limit nearest chunks of the whole collection, nearest first
GetRelevantDocuments(vdb, query, limit) ==
    LET Near(chunk) == Distance(query, chunk.page_content) = 0
        Far(chunk) == Distance(query, chunk.page_content) # 0
        ranked == SelectSeq(vdb, Near) \o SelectSeq(vdb, Far)
    IN  SubSeq(ranked, 1, IF Len(ranked) < limit THEN Len(ranked) ELSE limit)

\* f"From '{title}': {content}" with content = doc.page_content[:500]
ContextPart(doc) ==
    "From '" \o doc.pdf_title \o "': "
       \o SubSeq(doc.page_content, 1,
                 IF Len(doc.page_content) < ExcerptMax
                 THEN Len(doc.page_content) ELSE ExcerptMax)

\* a retrieval that keeps the chunks of the asking user's own documents
GetPdfContextOfOwner(vdb, user_id, query, limit, retrieval) ==
    LET Own(chunk) == chunk.owner_id = user_id
        docs == GetRelevantDocuments(SelectSeq(vdb, Own), query, limit)
    IN  IF retrieval # "answers" \/ docs = <<>> THEN ""
        ELSE Join([i \in 1..Len(docs) |-> ContextPart(docs[i])], "\n\n")

\* _get_pdf_context: "" without a vector store, "" when the call raises, ""
\* for no document, else the formatted excerpts joined by blank lines
GetPdfContext(vdb, user_id, query, limit, retrieval) ==
    LET docs == GetRelevantDocuments(vdb, query, limit)
    IN  IF retrieval # "answers" \/ docs = <<>> THEN ""
        ELSE Join([i \in 1..Len(docs) |-> ContextPart(docs[i])], "\n\n")

\* get_active_flags: select(FeatureFlag).where(FeatureFlag.is_enabled == True)
GetActiveFlags(flags) ==
    LET Enabled(flag) == flag.is_enabled
    IN  SelectSeq(flags, Enabled)

\* format_feature_flags_prompt
FormatFeatureFlagsPrompt(active_flags) ==
    IF active_flags = <<>> THEN ""
    ELSE Join(<<FEATURE_FLAG_ACTIVE_HEADER>>
              \o [i \in 1..Len(active_flags) |->
                     "- " \o active_flags[i].name \o ": "
                          \o active_flags[i].description]
              \o <<"", FEATURE_FLAG_INSTRUCTIONS, "", UNAVAILABLE_LIST_INTRO,
                   Join([i \in 1..Len(active_flags) |->
                            "- " \o active_flags[i].name], "\n")>>,
              "\n")

\* get_active_flags_prompt_text
GetActiveFlagsPromptText(flags) == FormatFeatureFlagsPrompt(GetActiveFlags(flags))

\* send_message, the model answering: the call of SendCompleted with what it
\* retrieved and what it composed for the model kept in the record of the call
SendWithContext(sid, user_id, content, retrieval, generated) ==
    /\ FindOwned(sessions, sid, user_id)
    /\ ~IsBlocked(sessions, sid)
    /\ FilterContent(content, TRUE).is_allowed
    /\ chat_pipeline
    /\ nextId + 2 <= MaxMsgs
    /\ LET pdf_context == GetPdfContext(vectordb, user_id, content,
                                        RetrievalLimit, retrieval)
           active_flags_prompt == GetActiveFlagsPromptText(feature_flags)
           enhanced_query == EnhancedQuery(content, pdf_context, active_flags_prompt)
           msgs1 == Append(messages, NewMessage(nextId + 1, sid, "user", content))
           ai_content == OutgoingText(FilterContent(generated, TRUE), generated)
       IN  /\ \E out1 \in SummaryOutcomes(GetChatHistory(sessions, msgs1, sid),
                                          <<HumanMessage(content)>>) :
                 LET before == SendBeforeModel(Snapshot, sid, content, out1)
                 IN  \E out2 \in SummaryOutcomes(before.chat_memory_map[sid],
                                                <<AIMessage(ai_content)>>) :
                        Becomes(SendAfterModel(before, sid, user_id, content,
                                               generated, TRUE, out2))
           /\ last' = [op |-> "send_message", sid |-> sid, err |-> "",
                       user_id |-> user_id, content |-> content,
                       retrieval |-> retrieval, pdf_context |-> pdf_context,
                       query |-> enhanced_query]
    /\ cleared' = cleared \ {sid}
    /\ UNCHANGED <<chat_pipeline, feature_flags, stream, pdf_documents, vectordb,
                   background_tasks, requests, pool, summarized>>

\* what each administrator uploads
UploadOf(user_id) ==
    IF user_id = "u1" THEN PsalmsUpload
    ELSE [title |-> "Rome", filename |-> "rome.pdf"]

\* a session of u1, no document and no flag yet
InitContext ==
    /\ sessions = [s \in SessionIds |->
                     IF s = "s1" THEN NewSession("u1", NEW_CHAT) ELSE NoSession]
    /\ messages = <<>>
    /\ logs = <<>>
    /\ chat_memory_map = [s \in SessionIds |-> NoWindow]
    /\ chat_pipeline = TRUE
    /\ feature_flags = <<>>
    /\ stream = NoStream
    /\ pdf_documents = [p \in PdfIds |-> NoPdf]
    /\ vectordb = <<>>
    /\ background_tasks = <<>>
    /\ requests = [w \in Workers |-> Idle]
    /\ summarized = [s \in SessionIds |-> {}]
    /\ pool = <<"s2">>
    /\ nextId = 0
    /\ last = Call("init", "", "")
    /\ cleared = {}

\* Two administrators upload, the tasks run with the file in place, the
\* seeded flags are switched, and the owner of the session asks
NextContext ==
    \/ \E u \in Users : CreatePdfDocument(u, TRUE, UploadOf(u))
    \/ \E i \in 1..MaxTasks : StartTask(i, TRUE)
    \/ \E i \in 1..MaxTasks, saved \in BOOLEAN : FinishTask(i, TRUE, saved)
    \/ InitializePredefinedFlags(TRUE)
    \/ ToggleFeatureFlag(TRUE, 1)
    \/ \E s \in SessionIds, content \in Questions, retrieval \in RetrievalOutcomes :
          SendWithContext(s, "u1", content, retrieval, "reply")

SpecContext == InitContext /\ [][NextContext]_vars

---------------------------------------------------------------------------
(* The session's updated_at column: the operations that write the title,    *)
(* over session rows that carry the column. A timestamp is the number of    *)
(* times the column was written; datetime.utcnow() gives a later one.       *)

\* writes of updated_at to one session
MaxStamps == 3

\* a row with the column updated_at, at its default
Stamped(row) ==
    [x \in DOMAIN row \cup {"updated_at"} |->
        IF x = "updated_at" THEN 0 ELSE row[x]]

\* session.updated_at = datetime.utcnow()
Touch(sess, sid) == [sess EXCEPT ![sid].updated_at = @ + 1]

\* the body of PUT /anon/session/{session_id} without a title
NoTitle == "None"

\* send_message, the model answering with a text that passes moderation: the
\* rows, the window, the title, and the timestamp written before the commit
SendMessageStamped(sid, actor, content, generated) ==
    /\ FindOwned(sessions, sid, actor)
    /\ ~IsBlocked(sessions, sid)
    /\ FilterContent(content, TRUE).is_allowed
    /\ FilterContent(generated, TRUE).is_allowed
    /\ chat_pipeline
    /\ nextId + 2 <= MaxMsgs
    /\ sessions[sid].updated_at < MaxStamps
    /\ LET msgs1 == Append(messages, NewMessage(nextId + 1, sid, "user", content))
       IN  \E out1 \in SummaryOutcomes(GetChatHistory(sessions, msgs1, sid),
                                       <<HumanMessage(content)>>) :
              LET before == SendBeforeModel(Snapshot, sid, content, out1)
              IN  \E out2 \in SummaryOutcomes(before.chat_memory_map[sid],
                                              <<AIMessage(generated)>>) :
                     LET after == SendAfterModel(before, sid, actor, content,
                                                 generated, TRUE, out2)
                     IN  Becomes([after EXCEPT
                                     !.sessions = Touch(after.sessions, sid)])
    /\ last' = Call("send_message", sid, "")
    /\ cleared' = cleared \ {sid}
    /\ UNCHANGED <<chat_pipeline, feature_flags, stream, pdf_documents, vectordb,
                   background_tasks, requests, pool, summarized>>

\* update_session_title: the title and the timestamp, one commit
UpdateSessionTitleStamped(sid, user_id, title) ==
    /\ IF ~FindOwned(sessions, sid, user_id)
       THEN /\ last' = Call("update_session_title", sid, "NotFound")
            /\ UNCHANGED sessions
       ELSE /\ sessions[sid].updated_at < MaxStamps
            /\ sessions' = Touch([sessions EXCEPT ![sid].title = title], sid)
            /\ last' = Call("update_session_title", sid, "")
    /\ UNCHANGED <<messages, logs, chat_memory_map, chat_pipeline, feature_flags,
                   stream, pdf_documents, vectordb, background_tasks, requests,
                   pool, nextId, cleared, summarized>>

\* update_anon_chat_session (PUT /anon/session/{session_id}): the 400 for a
\* missing title and the 404 for a session that is missing or has a
\* registered owner are raised inside the try and leave as 500; otherwise
\* the title is set and committed
UpdateAnonChatSession(sid, title) ==
    /\ IF title = NoTitle
          \/ ~Exists(sessions, sid) \/ sessions[sid].owner_id # NoOwner
       THEN /\ last' = [op |-> "update_anon_chat_session", sid |-> sid,
                        err |-> "InternalError", status |-> 500]
            /\ UNCHANGED sessions
       ELSE /\ sessions' = [sessions EXCEPT ![sid].title = title]
            /\ last' = [op |-> "update_anon_chat_session", sid |-> sid,
                        err |-> "", status |-> 200]
    /\ UNCHANGED <<messages, logs, chat_memory_map, chat_pipeline, feature_flags,
                   stream, pdf_documents, vectordb, background_tasks, requests,
                   pool, nextId, cleared, summarized>>

\* a session of u1 and a session of the token a1, both untitled
InitStamps ==
    /\ sessions = [s \in SessionIds |->
                     IF s = "s1" THEN Stamped(NewSession("u1", NEW_CHAT))
                     ELSE Stamped(NewAnonSession("a1", NEW_CHAT))]
    /\ messages = <<>>
    /\ logs = <<>>
    /\ chat_memory_map = [s \in SessionIds |-> NoWindow]
    /\ chat_pipeline = TRUE
    /\ feature_flags = <<>>
    /\ stream = NoStream
    /\ pdf_documents = [p \in PdfIds |-> NoPdf]
    /\ vectordb = <<>>
    /\ background_tasks = <<>>
    /\ requests = [w \in Workers |-> Idle]
    /\ summarized = [s \in SessionIds |-> {}]
    /\ pool = <<>>
    /\ nextId = 0
    /\ last = Call("init", "", "")
    /\ cleared = {}

NextStamps ==
    \/ \E s \in SessionIds, actor \in {"u1", NoOwner}, c \in {"hello", Text51} :
          SendMessageStamped(s, actor, c, "reply")
    \/ \E s \in SessionIds, u \in Users : UpdateSessionTitleStamped(s, u, "Renamed")
    \/ \E s \in SessionIds, t \in {"Renamed", NEW_CHAT, NoTitle} :
          UpdateAnonChatSession(s, t)
    \/ \E s \in SessionIds, actor \in {"u1", NoOwner} :
          SendModelRaises(s, actor, "hello", TRUE)

SpecStamps == InitStamps /\ [][NextStamps]_vars

---------------------------------------------------------------------------
(* A long sequential run on one session: sends that complete, every         *)
(* summarization succeeding, each message with a text of its own, and the   *)
(* process restarting in between. The turns handed to summarization are     *)
(* recorded.                                                                *)

\* ChatMessage rows of the run
MaxRun == 10

\* the contents of turns
ContentsOf(turns) == {turns[i].content : i \in 1..Len(turns)}

\* send_message, the model answering: the user's text and the model's are
\* the next two of StoredTexts, and both appends summarize without failure
SendInRun(sid, user_id, out) ==
    /\ FindOwned(sessions, sid, user_id)
    /\ ~IsBlocked(sessions, sid)
    /\ chat_pipeline
    /\ nextId + 2 <= MaxRun
    /\ LET content == StoredTexts[nextId + 1]
           generated == StoredTexts[nextId + 2]
           msgs1 == Append(messages, NewMessage(nextId + 1, sid, "user", content))
           added1 == AddMessages(GetChatHistory(sessions, msgs1, sid),
                                 <<HumanMessage(content)>>, out)
           before == SendBeforeModel(Snapshot, sid, content, out)
           added2 == AddMessages(added1.messages, <<AIMessage(generated)>>, out)
       IN  /\ FilterContent(content, TRUE).is_allowed
           /\ FilterContent(generated, TRUE).is_allowed
           /\ Becomes(SendAfterModel(before, sid, user_id, content, generated,
                                     TRUE, out))
           /\ summarized' =
                  [summarized EXCEPT ![sid] =
                      @ \cup ContentsOf(added1.old_messages)
                        \cup ContentsOf(added2.old_messages)]
    /\ last' = Call("send_message", sid, "")
    /\ cleared' = cleared \ {sid}
    /\ UNCHANGED <<chat_pipeline, feature_flags, stream, pdf_documents, vectordb,
                   background_tasks, requests, pool>>

NextRun ==
    \/ \E u \in Users : CreateSession(u, "Trip")
    \/ \E s \in SessionIds, u \in Users, out \in Summaries : SendInRun(s, u, out)
    \/ \E s \in SessionIds, u \in Users : SendNotFound(s, u, "hello")
    \/ Restart

SpecRun == Init /\ [][NextRun]_vars

---------------------------------------------------------------------------
(* send_message calls served concurrently. Each call runs on a worker of    *)
(* its own; a worker gives way to the other where the call waits for the    *)
(* moderation service, the summarization model or the chat model, and runs  *)
(* without interruption in between. The workers share the store and the     *)
(* window of the session in chat_memory_map.                                *)

\* ChatMessage rows inserted by the concurrent calls
MaxRaceRows == 4

\* the texts the users send and the model generates
RaceContents == {"hello", "smut"}

\* add_messages up to the summarization call: a leading summary is popped,
\* the new messages are appended, and the oldest turns beyond k are cut off
\* into old_messages
TrimWindow(win, new) ==
    LET extended == Turns(win) \o new
        evicts == Len(extended) > K
    IN  [messages |-> IF evicts THEN LastN(extended, K) ELSE extended,
         old_messages |-> IF evicts THEN SubSeq(extended, 1, Len(extended) - K)
                          ELSE <<>>]

\* add_messages after the summarization call: the new summary goes in front
\* of whatever self.messages holds by then
PrependSummary(win, summary) == <<SystemMessage(summary)>> \o win

\* a send_message that does not save the user's message
SaveUserMessageSkipped(msgs, id, sid, content) == msgs

\* db.add(user_message); db.commit()
SaveUserMessage(msgs, id, sid, content) ==
    Append(msgs, NewMessage(id, sid, "user", content))

\* the worker's request leaves send_message
Leaves(w, op_err) ==
    /\ requests' = [requests EXCEPT ![w] = Idle]
    /\ last' = Call("send_message", requests[w].sid, op_err)

\* db.add(ai_message), the title derived from the content, db.commit()
SaveAiMessage(w, sess, ai_content) ==
    LET sid == requests[w].sid
    IN  /\ messages' = Append(messages,
                              NewMessage(nextId + 1, sid, "assistant", ai_content))
        /\ nextId' = nextId + 1
        /\ sessions' = [sess EXCEPT ![sid].title =
                           IF sess[sid].title = NEW_CHAT
                           THEN AutoTitle(requests[w].content)
                           ELSE sess[sid].title]
        /\ Leaves(w, "")

\* send_message enters: the session is looked up and its blocked flag read,
\* then the call waits for the moderation of the content
BeginSend(w, sid, user_id, content) ==
    /\ requests[w] = Idle
    /\ FindOwned(sessions, sid, user_id)
    /\ nextId + 2 * Cardinality({v \in Workers : requests[v] # Idle}) + 2
           <= MaxRaceRows
    /\ IF IsBlocked(sessions, sid)
       THEN /\ last' = Call("send_message", sid, "Blocked")
            /\ UNCHANGED requests
       ELSE /\ requests' = [requests EXCEPT ![w] =
                   [pc |-> "moderation", sid |-> sid, user_id |-> user_id,
                    content |-> content, ai_content |-> ""]]
            /\ UNCHANGED last
    /\ UNCHANGED <<sessions, messages, logs, chat_memory_map, chat_pipeline,
                   feature_flags, stream, pdf_documents, vectordb,
                   background_tasks, summarized, pool, nextId, cleared>>

\* the moderation of the content answers: a refused content is logged and
\* the session blocked; an allowed one is saved, the window fetched and the
\* user turn added to it, up to the summarization call or the model call
InputModerated(w) ==
    /\ requests[w] # Idle
    /\ requests[w].pc = "moderation"
    /\ LET sid == requests[w].sid
           content == requests[w].content
           filter_result == FilterContent(content, TRUE)
           msgs1 == SaveUserMessage(messages, nextId + 1, sid, content)
           trimmed == TrimWindow(GetChatHistory(sessions, msgs1, sid),
                                 <<HumanMessage(content)>>)
       IN  IF ~filter_result.is_allowed
           THEN /\ logs' = LogViolation(logs, requests[w].user_id, sid,
                                        "user_input", content,
                                        filter_result.blocked_reason)
                /\ sessions' = BlockChatSession(sessions, sid,
                                                filter_result.blocked_reason)
                /\ Leaves(w, "ContentBlocked")
                /\ UNCHANGED <<messages, chat_memory_map, nextId>>
           ELSE /\ messages' = msgs1
                /\ nextId' = nextId + 1
                /\ IF ~chat_pipeline
                   THEN /\ Leaves(w, "ServiceUnavailable")
                        /\ UNCHANGED chat_memory_map
                   ELSE /\ chat_memory_map' =
                               [chat_memory_map EXCEPT ![sid] = trimmed.messages]
                        /\ requests' = [requests EXCEPT ![w].pc =
                               IF trimmed.old_messages # <<>>
                               THEN "summarize_user" ELSE "model"]
                        /\ UNCHANGED last
                /\ UNCHANGED <<sessions, logs>>
    /\ UNCHANGED <<chat_pipeline, feature_flags, stream, pdf_documents, vectordb,
                   background_tasks, summarized, pool, cleared>>

\* the summarization call of the user turn returns (out = "raise": it
\* raises and add_messages logs it): the summary is saved and put in front
\* of the window, and the call goes on to the model
UserTurnSummarized(w, out) ==
    /\ requests[w] # Idle
    /\ requests[w].pc = "summarize_user"
    /\ LET sid == requests[w].sid
       IN  IF out = "raise"
           THEN UNCHANGED <<sessions, chat_memory_map>>
           ELSE /\ sessions' = SaveSummaryToDatabase(sessions, messages, sid, out)
                /\ chat_memory_map' = [chat_memory_map EXCEPT ![sid] =
                                          PrependSummary(chat_memory_map[sid], out)]
    /\ requests' = [requests EXCEPT ![w].pc = "model"]
    /\ UNCHANGED <<messages, logs, chat_pipeline, feature_flags, stream,
                   pdf_documents, vectordb, background_tasks, summarized, pool,
                   nextId, last, cleared>>

\* chat_pipeline.invoke raises: rollback, the error goes to the caller
ModelRaised(w) ==
    /\ requests[w] # Idle
    /\ requests[w].pc = "model"
    /\ Leaves(w, "UpstreamError")
    /\ UNCHANGED <<sessions, messages, logs, chat_memory_map, chat_pipeline,
                   feature_flags, stream, pdf_documents, vectordb,
                   background_tasks, summarized, pool, nextId, cleared>>

\* chat_pipeline.invoke answers: the text is moderated (a refused one logged,
\* the session blocked, the text replaced), the turn added to the window up
\* to the summarization call, and without one the assistant row saved
ModelAnswered(w, generated) ==
    /\ requests[w] # Idle
    /\ requests[w].pc = "model"
    /\ LET sid == requests[w].sid
           ai_filter_result == FilterContent(generated, TRUE)
           ai_content == OutgoingText(ai_filter_result, generated)
           sess2 == IF ai_filter_result.is_allowed THEN sessions
                    ELSE BlockChatSession(sessions, sid,
                                          ai_filter_result.blocked_reason)
           trimmed == TrimWindow(chat_memory_map[sid], <<AIMessage(ai_content)>>)
       IN  /\ logs' = IF ai_filter_result.is_allowed THEN logs
                      ELSE LogViolation(logs, requests[w].user_id, sid,
                                        "ai_response", generated,
                                        ai_filter_result.blocked_reason)
           /\ chat_memory_map' = [chat_memory_map EXCEPT ![sid] = trimmed.messages]
           /\ IF trimmed.old_messages # <<>>
              THEN /\ sessions' = sess2
                   /\ requests' = [requests EXCEPT ![w].pc = "summarize_ai",
                                                   ![w].ai_content = ai_content]
                   /\ UNCHANGED <<messages, nextId, last>>
              ELSE SaveAiMessage(w, sess2, ai_content)
    /\ UNCHANGED <<chat_pipeline, feature_flags, stream, pdf_documents, vectordb,
                   background_tasks, summarized, pool, cleared>>

\* the summarization call of the assistant turn returns: the summary is
\* saved and put in front of the window, then the assistant row is saved
AiTurnSummarized(w, out) ==
    /\ requests[w] # Idle
    /\ requests[w].pc = "summarize_ai"
    /\ LET sid == requests[w].sid
           sess1 == IF out = "raise" THEN sessions
                    ELSE SaveSummaryToDatabase(sessions, messages, sid, out)
       IN  /\ chat_memory_map' =
                  IF out = "raise" THEN chat_memory_map
                  ELSE [chat_memory_map EXCEPT ![sid] =
                           PrependSummary(chat_memory_map[sid], out)]
           /\ SaveAiMessage(w, sess1, requests[w].ai_content)
    /\ UNCHANGED <<logs, chat_pipeline, feature_flags, stream, pdf_documents,
                   vectordb, background_tasks, summarized, pool, cleared>>

\* one session of u1 with K rows from before, its window not yet in the map
InitRace ==
    /\ messages = EarlierRows("s1", K)
    /\ \E summary \in {"", "S1"} :
         sessions = [s \in SessionIds |->
            IF s = "s1"
            THEN [NewSession("u1", "Trip") EXCEPT
                     !.conversation_summary = summary,
                     !.last_summary_message_id =
                         IF summary = "" THEN NoId ELSE 0 - 2]
            ELSE NoSession]
    /\ logs = <<>>
    /\ chat_memory_map = [s \in SessionIds |-> NoWindow]
    /\ chat_pipeline \in BOOLEAN
    /\ feature_flags = <<>>
    /\ stream = NoStream
    /\ pdf_documents = [p \in PdfIds |-> NoPdf]
    /\ vectordb = <<>>
    /\ background_tasks = <<>>
    /\ requests = [w \in Workers |-> Idle]
    /\ summarized = [s \in SessionIds |-> {}]
    /\ pool = <<"s2">>
    /\ nextId = 0
    /\ last = Call("init", "", "")
    /\ cleared = {}

NextRace ==
    \/ \E w \in Workers, c \in RaceContents : BeginSend(w, "s1", "u1", c)
    \/ \E w \in Workers : InputModerated(w)
    \/ \E w \in Workers, out \in Summaries \cup {"raise"} : UserTurnSummarized(w, out)
    \/ \E w \in Workers : ModelRaised(w)
    \/ \E w \in Workers, g \in RaceContents : ModelAnswered(w, g)
    \/ \E w \in Workers, out \in Summaries \cup {"raise"} : AiTurnSummarized(w, out)

SpecRace == InitRace /\ [][NextRace]_vars

---------------------------------------------------------------------------
(* Properties of send_message and delete_session, checked under Spec *)

\* the ChatMessage rows a step inserts
NewRows == SubSeq(messages', Len(messages) + 1, Len(messages'))

\* the rows of a step's send_message result: user_message and ai_message
Contents(rows) == [i \in 1..Len(rows) |-> rows[i].content]
Roles(rows) == [i \in 1..Len(rows) |-> rows[i].role]

\* C1: once a session is blocked, a send_message on it adds no ChatMessage
\* row, whoever calls, and the call of its owner fails with Blocked (another
\* actor's call fails with NotFound before the blocked check).
C1_BlockedSessionRejectsSend ==
    [][\A s \in SessionIds, u \in Users, c \in UserTexts :
          (last'.op = "send_message"
             /\ Exists(sessions, s) /\ sessions[s].is_blocked /\ SendMessage(s, u, c))
          => /\ messages' = messages
             /\ last'.err # ""
             /\ sessions[s].owner_id = u => last'.err = "Blocked"]_vars

\* C1 witness: the owner's send_message on a blocked session was refused
C1_Witness ==
    /\ last = Call("send_message", "s1", "Blocked")
    /\ Exists(sessions, "s1") /\ sessions["s1"].is_blocked

\* C2: delete_session by the owner of a blocked session fails with the
\* retention-policy error and leaves the session and its messages in place.
C2_DeleteBlockedIsRefused ==
    [][\A s \in SessionIds, u \in Users :
          (last'.op = "delete_session"
             /\ FindOwned(sessions, s, u) /\ sessions[s].is_blocked /\ DeleteSession(s, u))
          => /\ last'.err = BLOCKED_SESSION_DELETE_ERROR
             /\ sessions'[s] = sessions[s]
             /\ messages' = messages]_vars

\* C3: when the gate blocks the user's content, the call fails with
\* ContentBlocked, the session becomes blocked with a non-empty reason, a
\* user_input log row of the session holds the content, and the call inserts
\* no ChatMessage row.
C3_BlockedInputIsLoggedNotStored ==
    [][\A s \in SessionIds, u \in Users, c \in UserTexts :
          (last'.op = "send_message"
             /\ FindOwned(sessions, s, u) /\ ~sessions[s].is_blocked
             /\ ~FilterContent(c, TRUE).is_allowed /\ SendContentBlocked(s, u, c))
          => /\ last'.err = "ContentBlocked"
             /\ sessions'[s].is_blocked
             /\ sessions'[s].blocked_reason # ""
             /\ \E i \in 1..Len(logs') :
                   /\ logs'[i].session_id = s
                   /\ logs'[i].content_type = "user_input"
                   /\ logs'[i].original_content = c
             /\ messages' = messages]_vars

\* C3 witness: a call was refused as ContentBlocked and left a user_input log
C3_Witness ==
    /\ last = Call("send_message", "s1", "ContentBlocked")
    /\ Len(logs) = 1 /\ logs[1].content_type = "user_input"
    /\ sessions["s1"].is_blocked

\* C4: when the gate blocks the model's output, the session becomes blocked,
\* one ai_response log row is written, and the assistant text persisted,
\* appended to the window and returned is the safety notice: the rows the call
\* inserts are the user's content and the notice, and the turn it appends last
\* is the notice, not the generated text.
C4_BlockedOutputIsReplaced ==
    [][\A s \in SessionIds, u \in Users, c \in UserTexts, g \in AiTexts :
          (last'.op = "send_message"
             /\ FindOwned(sessions, s, u)
             /\ ~FilterContent(g, TRUE).is_allowed
             /\ \E up \in BOOLEAN : SendCompleted(s, u, c, up, g, TRUE))
          => /\ last'.err = ""
             /\ sessions'[s].is_blocked
             /\ Len(logs') = Len(logs) + 1
             /\ logs'[Len(logs')].content_type = "ai_response"
             /\ logs'[Len(logs')].session_id = s
             /\ Contents(NewRows) = <<c, AI_RESPONSE_BLOCKED_MESSAGE>>
             /\ Roles(NewRows) = <<"user", "assistant">>
             /\ g # AI_RESPONSE_BLOCKED_MESSAGE
             /\ LET win == chat_memory_map'[s]
                IN  /\ win # NoWindow /\ Len(win) > 0
                    /\ win[Len(win)] = AIMessage(AI_RESPONSE_BLOCKED_MESSAGE)]_vars

\* C4 witness: a call returned with the notice as its assistant row
C4_Witness ==
    /\ last = Call("send_message", "s1", "")
    /\ Len(messages) >= 2
    /\ messages[Len(messages)].content = AI_RESPONSE_BLOCKED_MESSAGE
    /\ sessions["s1"].is_blocked
    /\ logs # <<>> /\ logs[Len(logs)].content_type = "ai_response"

\* C5: when send_message passes input moderation and then fails for want of a
\* pipeline or because the model call raises, the call fails, its user row
\* stays persisted, no assistant row is inserted and the title is unchanged.
C5_FailureAfterUserMessage ==
    [][\A s \in SessionIds, u \in Users, c \in UserTexts :
          (last'.op = "send_message"
             /\ FindOwned(sessions, s, u)
             /\ \E up \in BOOLEAN : \/ SendNoPipeline(s, u, c, up)
                                     \/ SendModelRaises(s, u, c, up))
          => /\ last'.err \in {"ServiceUnavailable", "UpstreamError"}
             /\ Len(messages') = Len(messages) + 1
             /\ Contents(NewRows) = <<c>>
             /\ Roles(NewRows) = <<"user">>
             /\ NewRows[1].session_id = s
             /\ sessions'[s].title = sessions[s].title]_vars

\* C5 witness: the model call raised in a session that still has the sentinel
\* title and holds the user row of the failed call
C5_Witness ==
    /\ last = Call("send_message", "s1", "UpstreamError")
    /\ sessions["s1"].title = NEW_CHAT
    /\ messages # <<>> /\ messages[Len(messages)].role = "user"

\* C11: no step takes is_blocked of a session from true back to false: a
\* blocked session is blocked in the next state whenever it still exists.
C11_BlockedIsTerminal ==
    [][\A s \in SessionIds :
          (Exists(sessions, s) /\ sessions[s].is_blocked /\ Exists(sessions', s))
          => sessions'[s].is_blocked]_vars

\* C11 witness: a title update went through on a blocked session, which is
\* still blocked
C11_Witness ==
    /\ last = Call("update_session_title", "s1", "")
    /\ sessions["s1"].is_blocked
    /\ sessions["s1"].title = "Renamed"

\* the ContentFilterLog rows a step inserts
NewLogs == SubSeq(logs', Len(logs) + 1, Len(logs'))

\* C14: a send_message writes a ContentFilterLog row only on a blocked
\* verdict: none when the call is refused before the gate or fails after an
\* allowed input, none when input and output are both allowed, exactly one
\* user_input row holding the content when the input is blocked, and exactly
\* one ai_response row holding the generated text when the output is blocked.
\* Rows written earlier stay as they are.
C14_LogOnlyOnBlockedVerdict ==
    [][\A s \in SessionIds, u \in Users, c \in UserTexts :
          (last'.op = "send_message" /\ last'.sid = s /\ SendMessage(s, u, c))
          => /\ Len(logs') >= Len(logs)
             /\ SubSeq(logs', 1, Len(logs)) = logs
             /\ CASE last'.err = "ContentBlocked" ->
                      /\ ~FilterContent(c, TRUE).is_allowed
                      /\ Len(NewLogs) = 1
                      /\ NewLogs[1].content_type = "user_input"
                      /\ NewLogs[1].session_id = s
                      /\ NewLogs[1].original_content = c
                  [] last'.err = "" ->
                      \A g \in AiTexts, up2 \in BOOLEAN :
                         (\E up \in BOOLEAN : SendCompleted(s, u, c, up, g, up2))
                         => IF FilterContent(g, up2).is_allowed
                            THEN NewLogs = <<>>
                            ELSE /\ Len(NewLogs) = 1
                                 /\ NewLogs[1].content_type = "ai_response"
                                 /\ NewLogs[1].session_id = s
                                 /\ NewLogs[1].original_content = g
                  [] OTHER -> NewLogs = <<>>]_vars

\* C14 witness: two calls completed in a session; the first, all allowed, left
\* no row, and the second, its output blocked, left one ai_response row
C14_Witness ==
    /\ last = Call("send_message", "s1", "")
    /\ Len(messages) = 4 /\ messages[2].content = "reply"
    /\ Len(logs) = 1 /\ logs[1].content_type = "ai_response"
    /\ logs[1].original_content = "smut"

\* a send_message of content by the owner in which the classifier answers
\* neither for the input nor for the output
SendUnmoderated(sid, user_id, content) ==
    \/ SendNoPipeline(sid, user_id, content, FALSE)
    \/ SendModelRaises(sid, user_id, content, FALSE)
    \/ \E generated \in AiTexts :
          SendCompleted(sid, user_id, content, FALSE, generated, FALSE)

\* C16: when the classifier is unavailable or its call raises, the gate
\* answers allowed with an empty reason for every text; a send_message by the
\* owner of an unblocked session then goes ahead whatever the content (within
\* the rows the model may insert), and such a call is never refused as
\* ContentBlocked, leaves the session unblocked, writes no ContentFilterLog
\* row, persists the content as its user row and, when it completes, the
\* generated text as its assistant row.
C16_UnavailableGateFailsOpen ==
    /\ [](\A t \in UserTexts \cup AiTexts :
            FilterContent(t, FALSE) = [is_allowed |-> TRUE, blocked_reason |-> ""])
    /\ [](\A s \in SessionIds, c \in UserTexts :
            (sessions[s] # NoSession /\ ~sessions[s].is_blocked
               /\ nextId + 2 <= MaxMsgs)
            => ENABLED SendUnmoderated(s, sessions[s].owner_id, c))
    /\ [][\A s \in SessionIds, u \in Users, c \in UserTexts :
            (last'.op = "send_message" /\ last'.sid = s
               /\ sessions[s] # NoSession /\ sessions[s].owner_id = u
               /\ ~sessions[s].is_blocked /\ SendUnmoderated(s, u, c))
            => /\ last'.err \in {"", "ServiceUnavailable", "UpstreamError"}
               /\ ~sessions'[s].is_blocked
               /\ logs' = logs
               /\ NewRows[1].role = "user" /\ NewRows[1].content = c
               /\ last'.err = ""
                  => /\ Len(NewRows) = 2
                     /\ NewRows[2].role = "assistant"
                     /\ NewRows[2].content \in AiTexts]_vars

\* C16 witness: a call completed with content and generated text that the
\* classifier flags when it answers; both are persisted, the session is not
\* blocked and no log row exists
C16_Witness ==
    /\ last = Call("send_message", "s1", "")
    /\ Len(messages) = 2
    /\ messages[1].content = "kill them" /\ messages[2].content = "smut"
    /\ ~sessions["s1"].is_blocked
    /\ logs = <<>>

---------------------------------------------------------------------------
(* Properties of the request layer, checked under SpecApi *)

\* the session does not exist, or it exists and the actor is not its owner
NotTheirs(sid, user_id) ==
    sessions[sid] = NoSession \/ sessions[sid].owner_id # user_id

\* C12: for a session id that does not exist, and for an existing session and
\* an actor who is not its owner, reading the session, listing its messages,
\* updating its title, deleting it and send_message all fail with NotFound,
\* answered 404, and change no stored state.
C12_NotTheirsIsNotFound ==
    [][\A s \in SessionIds, u \in Users :
          (last'.sid = s /\ NotTheirs(s, u)
             /\ CASE last'.op = "read_chat_session" -> ReadChatSession(s, u)
                  [] last'.op = "read_chat_messages" -> ReadChatMessages(s, u)
                  [] last'.op = "update_session_title" ->
                         \E t \in NewTitles : UpdateSessionTitle(s, u, t)
                  [] last'.op = "delete_session" -> DeleteSession(s, u)
                  [] last'.op = "send_message" ->
                         \E c \in UserTexts : SendMessage(s, u, c)
                  [] OTHER -> FALSE)
          => /\ last'.err = "NotFound"
             /\ HttpStatus(last') = 404
             /\ sessions' = sessions
             /\ messages' = messages
             /\ logs' = logs
             /\ chat_memory_map' = chat_memory_map]_vars

\* C12 witness: an actor who is not the owner asked to delete a session that
\* holds messages, was answered NotFound, and the session is still there
C12_Witness ==
    /\ last = Call("delete_session", "s1", "NotFound")
    /\ sessions["s1"] # NoSession
    /\ messages # <<>>

\* C17: the send route answers ContentBlocked with a 4xx status, Blocked with
\* a status other than that of ContentBlocked, and ServiceUnavailable and
\* UpstreamError with a 5xx status.
C17_ErrorKindsToldApartByStatus ==
    last.op = "send_message"
    => /\ last.err = "ContentBlocked" => HttpStatus(last) \in 400..499
       /\ last.err = "Blocked"
          => HttpStatus(last) # HttpStatus([last EXCEPT !.err = "ContentBlocked"])
       /\ last.err \in {"ServiceUnavailable", "UpstreamError"}
          => HttpStatus(last) \in 500..599

\* pages a caller may ask for: (skip, limit), the default among them
Pages == {<<DefaultSkip, DefaultLimit>>, <<0, 1>>, <<1, 2>>, <<2, DefaultLimit>>}

\* C20: every persisted ChatMessage has role "user" or "assistant", and
\* get_session_messages returns rows of the session in ascending creation
\* order: the row at place j of the page is the row with skip + j - 1 rows of
\* the session created before it, so an assistant row is listed right after
\* the user row of its call (the row inserted just before it), which is on
\* the page whenever the assistant row is not the first row of the page.
C20_RolesAndListingOrder ==
    /\ \A i \in 1..Len(messages) : messages[i].role \in {"user", "assistant"}
    /\ \A s \in SessionIds, pg \in Pages :
          LET listing == GetSessionMessages(messages, s, pg[1], pg[2])
              mine == {i \in 1..Len(messages) : messages[i].session_id = s}
              rest == IF Cardinality(mine) > pg[1]
                      THEN Cardinality(mine) - pg[1] ELSE 0
          IN  /\ Len(listing) = (IF rest < pg[2] THEN rest ELSE pg[2])
              /\ \A j \in 1..Len(listing) :
                    /\ \E i \in mine : messages[i] = listing[j]
                    /\ Cardinality({i \in mine : messages[i].id < listing[j].id})
                          = pg[1] + j - 1
              /\ \A i, j \in 1..Len(listing) : i < j => listing[i].id < listing[j].id
              /\ \A j \in 2..Len(listing) :
                    listing[j].role = "assistant"
                    => /\ listing[j - 1].role = "user"
                       /\ listing[j - 1].id = listing[j].id - 1
              /\ (pg[1] = 0 /\ listing # <<>>) => listing[1].role = "user"

\* C20 witness: a listing of a session that holds the user row of a failed
\* call and then the two rows of a call that completed
C20_Witness ==
    /\ last = Call("read_chat_messages", "s1", "")
    /\ Len(messages) = 3
    /\ messages[1].role = "user" /\ messages[2].role = "user"
    /\ messages[3].role = "assistant"

---------------------------------------------------------------------------
(* Properties of two sessions side by side, checked under SpecTwo *)

\* C13: delete_session on an unblocked session owned by the actor removes the
\* session and every ChatMessage row of it, removes its entry of the window
\* map, and leaves every other session, its rows and its window unchanged.
C13_DeleteRemovesOnlyThatSession ==
    [][\A s \in SessionIds, u \in Users :
          (last'.op = "delete_session" /\ last'.sid = s
             /\ sessions[s] # NoSession /\ sessions[s].owner_id = u
             /\ ~sessions[s].is_blocked /\ DeleteSession(s, u))
          => /\ last'.err = ""
             /\ sessions'[s] = NoSession
             /\ \A i \in 1..Len(messages') : messages'[i].session_id # s
             /\ chat_memory_map'[s] = NoWindow
             /\ \A o \in SessionIds \ {s} :
                   /\ sessions'[o] = sessions[o]
                   /\ SelectSession(messages', o) = SelectSession(messages, o)
                   /\ chat_memory_map'[o] = chat_memory_map[o]]_vars

\* C13 witness: s1 was deleted with its two rows, and s2 is there with its
\* two rows and its window
C13_Witness ==
    /\ last = Call("delete_session", "s1", "")
    /\ sessions["s1"] = NoSession /\ sessions["s2"] # NoSession
    /\ nextId = 4 /\ Len(messages) = 2
    /\ messages[1].session_id = "s2"
    /\ chat_memory_map["s2"] # NoWindow

---------------------------------------------------------------------------
(* Properties of the automatic title, checked under SpecTitle *)

\* a send_message of content c by u on s that completed
Completed(s, u, c) ==
    /\ last'.op = "send_message" /\ last'.sid = s /\ last'.err = ""
    /\ \E generated \in AiTexts, up \in BOOLEAN, up2 \in BOOLEAN :
          SendCompleted(s, u, c, up, generated, up2)

\* the title the rule gives a content: the content when it has at most 50
\* characters, otherwise its first 50 characters and "..."
TitleFor(c) ==
    IF Len(c) <= 50 THEN c ELSE SubSeq(c, 1, 50) \o "..."

\* C18 as stated: after a send_message that completed on a session titled
\* "New Chat" the title is no longer "New Chat" and is the content, cut to 50
\* characters and "..." when longer; another title is kept.
C18_TitleLeavesNewChat ==
    [][\A s \in SessionIds, u \in Users, c \in TitleTexts :
          Completed(s, u, c)
          => IF sessions[s].title = "New Chat"
             THEN /\ sessions'[s].title # "New Chat"
                  /\ sessions'[s].title = TitleFor(c)
             ELSE sessions'[s].title = sessions[s].title]_vars

\* C18 amended: after a send_message that completed on a session titled
\* "New Chat" the title is the content, cut to 50 characters and "..." when
\* longer, so it is no longer "New Chat" unless the content is "New Chat";
\* another title is kept.
C18_TitleFollowsContent ==
    [][\A s \in SessionIds, u \in Users, c \in TitleTexts :
          Completed(s, u, c)
          => IF sessions[s].title = "New Chat"
             THEN /\ sessions'[s].title = TitleFor(c)
                  /\ (sessions'[s].title = "New Chat") = (c = "New Chat")
                  /\ c = Text51 => sessions'[s].title = Text50 \o "..."
             ELSE sessions'[s].title = sessions[s].title]_vars

\* C18 witness: a content of 51 characters gave the title of 53, and the next
\* call, of another content, left it
C18_Witness ==
    /\ last = Call("send_message", "s1", "")
    /\ Len(messages) = 4
    /\ messages[1].content = Text51 /\ messages[3].content = "hello"
    /\ sessions["s1"].title = Text50 \o "..."

---------------------------------------------------------------------------
(* Properties of the moderation gate, checked under SpecGate *)

\* the fixed set of categories the gate blocks on
FixedCategories == {"violence", "sexual", "self_harm", "hate"}

\* a category's name in the reason, after "; " when a category before it in
\* the fixed order is set too, and nothing when its flag is not set
ReasonPiece(flags, category, name, before) ==
    IF category \notin flags THEN ""
    ELSE (IF flags \cap before # {} THEN "; " ELSE "") \o name

\* C15: for every classifier result the gate returns allowed = false exactly
\* when a category of the fixed set (violence, sexual, self-harm, hate) has
\* its flag set, and the reason is the names of the set categories of the
\* fixed set, in that order, joined by "; ": empty when allowed.
C15_VerdictFollowsFlags ==
    (last.op = "filter_content" /\ last.up)
    => /\ last.result.is_allowed = (last.flags \cap FixedCategories = {})
       /\ last.result.blocked_reason =
             ReasonPiece(last.flags, "violence", "Violence", {})
             \o ReasonPiece(last.flags, "sexual", "Sexual Content", {"violence"})
             \o ReasonPiece(last.flags, "self_harm", "Self-Harm",
                            {"violence", "sexual"})
             \o ReasonPiece(last.flags, "hate", "Hate Speech",
                            {"violence", "sexual", "self_harm"})
       /\ last.result.is_allowed => last.result.blocked_reason = ""

\* C15 witness: the classifier set violence, hate and a category outside the
\* fixed set, and the gate answered with the two names in the fixed order
C15_Witness ==
    /\ last.op = "filter_content" /\ last.up
    /\ last.flags = {"hate", "harassment", "violence"}
    /\ ~last.result.is_allowed
    /\ last.result.blocked_reason = "Violence; Hate Speech"

---------------------------------------------------------------------------
(* Properties of the memory window, checked under SpecMem *)

Min(a, b) == IF a <= b THEN a ELSE b

\* positions of the summary messages and of the turns of a window
SummaryAt(win) == {i \in 1..Len(win) : win[i].type = "system"}
TurnAt(win) == {i \in 1..Len(win) : win[i].type # "system"}

\* positions of a session's rows in the table
RowsOf(sid) == {i \in 1..Len(messages) : messages[i].session_id = sid}

\* the position of the row of sid that has exactly r rows of sid after it
RowFromEnd(sid, r) ==
    CHOOSE i \in RowsOf(sid) : Cardinality({j \in RowsOf(sid) : j > i}) = r

\* C6: every window holds at most K turns and at most one summary message,
\* and a summary message is its first element.
C6_WindowBounded ==
    \A s \in SessionIds :
        chat_memory_map[s] # NoWindow
        => LET win == chat_memory_map[s]
           IN  /\ Cardinality(TurnAt(win)) <= K
               /\ Cardinality(SummaryAt(win)) <= 1
               /\ SummaryAt(win) \subseteq {1}

\* C6 witness: an append left a full window with a summary at its head
C6_Witness ==
    /\ last = Call("add_message", "s1", "")
    /\ Cardinality(TurnAt(chat_memory_map["s1"])) = K
    /\ SummaryAt(chat_memory_map["s1"]) = {1}

C8_FailedSummaryKeepsSummary ==
    [][\A s \in SessionIds, m \in AppendedTurns :
          (chat_memory_map[s] # NoWindow
             /\ Cardinality(TurnAt(chat_memory_map[s])) + 1 > K
             /\ AddMessage(s, m, "raise"))
          => LET old == chat_memory_map[s]
                 win == chat_memory_map'[s]
             IN  /\ Cardinality(TurnAt(win)) = K
                 /\ win[Len(win)] = m
                 /\ sessions'[s].conversation_summary = sessions[s].conversation_summary
                 /\ SummaryAt(win) = SummaryAt(old)
                 /\ SummaryAt(old) = {1} => win[1] = old[1]]_vars

\* C9: load yields the stored summary as first element when it is non-empty,
\* followed by the min(K, n) newest rows of the session, oldest first, each as
\* a turn of its role, and nothing else.
C9_LoadIsSummaryThenRecentRows ==
    [][\A s \in SessionIds :
          Load(s)
          => LET win == chat_memory_map'[s]
                 n == Cardinality(RowsOf(s))
                 h == IF sessions[s].conversation_summary # "" THEN 1 ELSE 0
             IN  /\ Len(win) = h + Min(K, n)
                 /\ h = 1 => win[1] = SystemMessage(sessions[s].conversation_summary)
                 /\ \A j \in 1..Min(K, n) :
                       LET row == messages[RowFromEnd(s, Min(K, n) - j)]
                       IN  /\ win[h + j].content = row.content
                           /\ win[h + j].type =
                                 (IF row.role = "user" THEN "human" ELSE "ai")]_vars

\* C9 witness: a load of a session with more than K rows and a summary
C9_Witness ==
    /\ last = Call("load", "s1", "")
    /\ Cardinality(RowsOf("s1")) > K
    /\ Len(chat_memory_map["s1"]) = K + 1
    /\ chat_memory_map["s1"][1].type = "system"

\* C10 as stated: after clear and then load, with nothing sent in between, the
\* window is empty and the summary is empty.
C10_ClearThenLoadIsEmpty ==
    \A s \in cleared :
        (last = Call("load", s, ""))
        => /\ chat_memory_map[s] = <<>>
           /\ sessions[s].conversation_summary = ""

\* C10 amended: after clear and then load, with nothing sent in between, the
\* stored summary is empty and the window holds no summary message and exactly
\* the min(K, n) newest rows of the session: it is empty only when the session
\* has no rows.
C10_ClearThenLoadHasNoSummary ==
    \A s \in cleared :
        (last = Call("load", s, ""))
        => LET win == chat_memory_map[s]
               n == Cardinality(RowsOf(s))
           IN  /\ sessions[s].conversation_summary = ""
               /\ sessions[s].last_summary_message_id = NoId
               /\ SummaryAt(win) = {}
               /\ Len(win) = Min(K, n)
               /\ \A j \in 1..Min(K, n) :
                     win[j].content = messages[RowFromEnd(s, Min(K, n) - j)].content

\* C10 witness: a load after a clear in a session that has rows
C10_Witness ==
    /\ "s1" \in cleared
    /\ last = Call("load", "s1", "")
    /\ Cardinality(RowsOf("s1")) > K
    /\ Len(chat_memory_map["s1"]) = K

---------------------------------------------------------------------------
(* Properties of long and anonymous sessions, checked under SpecPage *)

\* who may call send_message: a registered user, or the anonymous actor
Actors == Users \cup {NoOwner}

\* what GET .../messages returns for s after the step when the caller gives
\* neither skip nor limit
DefaultListing(s) == GetSessionMessages(messages', s, DefaultSkip, DefaultLimit)

\* the user row of a completed call holds the content as sent, which is not
\* the text composed for the model when a context or a flag text is added
UserRowIsContent(s, c) ==
    /\ Len(NewRows) = 2
    /\ NewRows[1].role = "user" /\ NewRows[1].session_id = s
    /\ NewRows[1].content = c
    /\ \A ctx \in PdfContexts, fl \in FlagPrompts :
          (ctx # "" \/ fl # "") => NewRows[1].content # EnhancedQuery(c, ctx, fl)

---------------------------------------------------------------------------
(* Properties of the two kinds of session, checked under SpecAnon *)

\* the sessions that carry the anonymous token
TokenSessions(sess, token) ==
    {sid \in SessionIds :
        /\ sess[sid] # NoSession
        /\ "anon_session_id" \in DOMAIN sess[sid]
        /\ sess[sid].anon_session_id = token}

HasOwner(row) == row.owner_id \in Users
HasToken(row) == "anon_session_id" \in DOMAIN row /\ row.anon_session_id \in AnonTokens

---------------------------------------------------------------------------
(* Properties of the feature flag registry, checked under SpecFlags *)

\* the places of the rows with the name
RowsNamed(flags, name) == {i \in 1..Len(flags) : flags[i].name = name}

\* the names of the seed flags
SeedNames == {PredefinedFlags[n].name : n \in 1..Len(PredefinedFlags)}

\* C23: a run of initialize_predefined leaves every row that was there in
\* its place with its id, name, is_enabled and is_predefined, and with its
\* description too unless it has the name of a seed flag, whose description
\* it then has; every seed flag without a row gets one row, disabled and
\* predefined, with the seed description; and a second run right after the
\* first changes no row and adds none.
C23_InitializeIsIdempotentUpsert ==
    [][(last'.op = "initialize_predefined_flags" /\ InitializePredefinedFlags(TRUE)) =>
          /\ Len(feature_flags') =
                Len(feature_flags)
                + Cardinality({n \in 1..Len(PredefinedFlags) :
                                 RowsNamed(feature_flags, PredefinedFlags[n].name) = {}})
          /\ \A i \in 1..Len(feature_flags) :
                /\ feature_flags'[i].id = feature_flags[i].id
                /\ feature_flags'[i].name = feature_flags[i].name
                /\ feature_flags'[i].is_enabled = feature_flags[i].is_enabled
                /\ feature_flags'[i].is_predefined = feature_flags[i].is_predefined
                /\ feature_flags[i].name \notin SeedNames =>
                      feature_flags'[i].description = feature_flags[i].description
          /\ \A n \in 1..Len(PredefinedFlags) :
                /\ Cardinality(RowsNamed(feature_flags', PredefinedFlags[n].name)) = 1
                /\ \A i \in RowsNamed(feature_flags', PredefinedFlags[n].name) :
                      /\ feature_flags'[i].description = PredefinedFlags[n].description
                      /\ i > Len(feature_flags) =>
                            /\ ~feature_flags'[i].is_enabled
                            /\ feature_flags'[i].is_predefined
          /\ \A i, j \in 1..Len(feature_flags') :
                feature_flags'[i].id = feature_flags'[j].id => i = j
          /\ (last.op = "initialize_predefined_flags" /\ last.status = 200) =>
                feature_flags' = feature_flags]_vars

\* a run has just ended on a table where a flag the admin had created under
\* the name of a seed flag is still enabled and not predefined, with the seed
\* description now, next to the predefined row that had that name before the
\* admin renamed it
C23_Witness ==
    /\ last.op = "initialize_predefined_flags" /\ last.status = 200
    /\ \E i \in RowsNamed(feature_flags, "Grief Support") :
          /\ feature_flags[i].is_enabled /\ ~feature_flags[i].is_predefined
          /\ feature_flags[i].description = PredefinedFlags[2].description
    /\ \E i \in RowsNamed(feature_flags, "Lent") : feature_flags[i].is_predefined
    /\ Len(feature_flags) = Len(PredefinedFlags) + 1

\* the places of the rows with the id
RowsWithId(flags, flag_id) == {i \in 1..Len(flags) : flags[i].id = flag_id}

\* C24: a delete the admin asks for on a predefined flag changes no row and
\* is answered with a failure that is not the answer a delete gets for an id
\* without a row; on a flag that is not predefined it succeeds and removes
\* that row, leaving the other rows as they were and in their order.
C24_DeletePredefinedIsForbidden ==
    [][\A flag_id \in AdminFlagIds :
          (last'.op = "delete_feature_flag" /\ DeleteFeatureFlag(TRUE, flag_id)) =>
             \A i \in RowsWithId(feature_flags, flag_id) :
                IF feature_flags[i].is_predefined
                THEN /\ feature_flags' = feature_flags
                     /\ last'.status # 200
                     /\ \A missing \in FlagIds :
                           RowsWithId(feature_flags, missing) = {} =>
                              last'.status # DeleteFlagStatus(feature_flags, missing)
                ELSE /\ last'.status = 200
                     /\ Len(feature_flags') = Len(feature_flags) - 1
                     /\ \A j \in 1..Len(feature_flags') :
                           feature_flags'[j] =
                              feature_flags[IF j < i THEN j ELSE j + 1]]_vars

---------------------------------------------------------------------------
(* Properties of the streamed reply, checked under SpecStream *)

---------------------------------------------------------------------------
(* Properties of the window kept by send_message, checked under Spec *)

\* the window turns that mirror the last min(K, n) rows of the session
LastRowsAsTurns(msgs, sid) ==
    LET rows == SelectSession(msgs, sid)
        kept == LastN(rows, K)
    IN  [i \in 1..Len(kept) |-> ToWindowMessage(kept[i])]

\* C26: when send_message has returned its result, the turns of the session's
\* window, the summary left aside, are the session's last min(K, n) rows in
\* creation order, one turn per row, also when the call itself built the
\* window from the store.
C26_WindowMirrorsPersistedRows ==
    [][(last'.op = "send_message" /\ last'.err = "" /\ nextId' # nextId) =>
          Turns(chat_memory_map'[last'.sid]) =
             LastRowsAsTurns(messages', last'.sid)]_vars

---------------------------------------------------------------------------
(* Properties of the summary and its marker, checked under SpecMem *)

\* C27: when an append to a window just loaded from the store evicts a turn
\* and stores the new summary, the marker stored with it is the id of the
\* newest row folded into the summary, the row of the evicted turn, and not
\* the id of a row whose turn the window still holds.
C27_MarkerIsNewestFoldedMessage ==
    [][\A s \in SessionIds, m \in AppendedTurns, out \in Summaries :
          (last = Call("load", s, "") /\ last'.op = "add_message"
             /\ Cardinality(TurnAt(chat_memory_map[s])) + 1 > K
             /\ AddMessage(s, m, out))
          => LET marker == sessions'[s].last_summary_message_id
                 held == {messages[RowFromEnd(s, r)].id : r \in 0..(K - 2)}
             IN  /\ sessions'[s].conversation_summary = out
                 /\ marker = messages[RowFromEnd(s, K - 1)].id
                 /\ marker \notin held]_vars

\* C28: an append to a window that has a summary at its head leaves a window
\* that has a summary at its head, whether the append evicts a turn or not.
C28_AppendKeepsSummaryAtHead ==
    [][\A s \in SessionIds :
          (last'.op = "add_message" /\ last'.sid = s
             /\ chat_memory_map[s] # NoWindow
             /\ HasSummary(chat_memory_map[s]))
          => HasSummary(chat_memory_map'[s])]_vars

---------------------------------------------------------------------------
(* Properties of the blocked-input branch over failing commits, checked     *)
(* under SpecWrites                                                         *)

\* the contentfilterlog rows of a session
LogsOf(lg, sid) == {i \in 1..Len(lg) : lg[i].session_id = sid}

\* C29: when send_message has left its blocked-input branch, whichever of
\* the two commits failed, either the branch has added its log row and the
\* session is blocked, or it has added no log row and the session is not
\* blocked.
C29_LogAndBlockCommitTogether ==
    [][\A s \in SessionIds, u \in Users, c \in UserTexts,
          log_commits \in BOOLEAN, block_commits \in BOOLEAN :
          (last'.op = "send_message" /\ last'.sid = s
             /\ SendContentBlockedWrites(s, u, c, log_commits, block_commits))
          => (Cardinality(LogsOf(logs', s)) = Cardinality(LogsOf(logs, s)) + 1
                 /\ sessions'[s].is_blocked)
             \/ (logs' = logs /\ ~sessions'[s].is_blocked)]_vars

---------------------------------------------------------------------------
(* Properties of the automatic title after failed calls, checked under      *)
(* SpecFirst                                                                *)

\* the first user row of a session that has one
FirstUserRow(msgs, sid) ==
    LET rows == SelectSession(msgs, sid)
    IN  rows[CHOOSE i \in 1..Len(rows) :
                /\ rows[i].role = "user"
                /\ \A j \in 1..(i - 1) : rows[j].role # "user"]

\* C30: when a send_message call gives a session its title, the title is the
\* one the rule gives the content of the first user message the session
\* holds, whatever calls failed or succeeded on the session before.
C30_TitleFromFirstPersistedUserMessage ==
    [][\A s \in SessionIds :
          (last'.op = "send_message" /\ last'.sid = s /\ last'.err = ""
             /\ sessions[s] # NoSession /\ sessions'[s] # NoSession
             /\ sessions'[s].title # sessions[s].title)
          => sessions'[s].title = TitleFor(FirstUserRow(messages', s).content)]_vars

---------------------------------------------------------------------------
(* Properties of the document store, checked under SpecPdf                  *)

---------------------------------------------------------------------------
(* Properties of retrieval and the prompt, checked under SpecContext        *)

\* C31: a send_message whose retrieval call raises fails with UpstreamError;
\* a call that returns normally had a retrieval that did not raise.
C31_RetrievalFailureIsUpstreamError ==
    [][(last'.op = "send_message" /\ "retrieval" \in DOMAIN last'
          /\ last' # last /\ last'.retrieval = "raises")
       => last'.err = "UpstreamError"]_vars

\* a text begins with, ends with, holds another
StartsWith(text, part) ==
    Len(part) <= Len(text) /\ SubSeq(text, 1, Len(part)) = part
EndsWith(text, part) ==
    Len(part) <= Len(text)
       /\ SubSeq(text, Len(text) - Len(part) + 1, Len(text)) = part
Holds(text, part) ==
    \E i \in 1..(Len(text) - Len(part) + 1) :
        SubSeq(text, i, i + Len(part) - 1) = part

\* the excerpts the retrieval of the last call returned
ExcerptsOf(call) ==
    IF call.retrieval = "answers"
    THEN GetRelevantDocuments(vectordb, call.content, RetrievalLimit)
    ELSE <<>>

\* the call that has just returned is a send_message that went to the model
Asked == last.op = "send_message" /\ "query" \in DOMAIN last

\* C32 as stated: the prompt begins with the flag block exactly when a flag
\* is enabled, holds the context block exactly when retrieval returned an
\* excerpt, and ends with the literal question, which comes after the
\* instruction to cite; without flag and excerpt it is the content.
C32_PromptEndsWithQuestion ==
    Asked =>
        /\ StartsWith(last.query, FEATURE_FLAG_ACTIVE_HEADER)
              <=> GetActiveFlags(feature_flags) # <<>>
        /\ Holds(last.query, CONTEXT_HEADER) <=> ExcerptsOf(last) # <<>>
        /\ EndsWith(last.query, last.content)
        /\ (GetActiveFlags(feature_flags) = <<>> /\ ExcerptsOf(last) = <<>>)
              => last.query = last.content

\* C32, amended: the prompt is the flag block and a blank line (exactly when
\* a flag is enabled), followed, when retrieval returned an excerpt, by the
\* context header, the excerpts, the question under "User question: " and
\* then the instruction to cite, and otherwise by the content alone.
C32_PromptOrder ==
    Asked =>
        LET active_flags == GetActiveFlags(feature_flags)
            docs == ExcerptsOf(last)
            flag_block == IF active_flags # <<>>
                          THEN FormatFeatureFlagsPrompt(active_flags) \o "\n\n"
                          ELSE ""
            excerpts == Join([i \in 1..Len(docs) |-> ContextPart(docs[i])], "\n\n")
        IN  last.query =
               flag_block \o
               (IF docs # <<>>
                THEN CONTEXT_HEADER \o excerpts \o QUESTION_HEADER
                        \o last.content \o CITE_INSTRUCTION
                ELSE last.content)

\* a prompt with the flag block and two excerpts has been composed
C32_Witness ==
    /\ Asked
    /\ GetActiveFlags(feature_flags) # <<>>
    /\ Len(ExcerptsOf(last)) >= 2
    /\ Len(last.query) > Len(last.content)

\* the chunks of the documents a user owns
OwnChunks(vdb, user_id) ==
    LET Own(chunk) == chunk.owner_id = user_id
    IN  SelectSeq(vdb, Own)

\* C40 as stated: the context of a send_message by user u is what the same
\* query yields in the state that holds u's documents only, so documents of
\* other users make no difference to it.
C40_ContextFromOwnDocumentsOnly ==
    Asked =>
        last.pdf_context =
            GetPdfContext(OwnChunks(vectordb, last.user_id), last.user_id,
                          last.content, RetrievalLimit, last.retrieval)

\* C40, amended: the context of a send_message depends on the query and on
\* the chunks of the whole collection, whoever owns their documents, and not
\* on the user who asks: every user gets the context the asking user got.
C40_ContextSameForEveryUser ==
    Asked =>
        \A u \in Users :
            last.pdf_context =
                GetPdfContext(vectordb, u, last.content, RetrievalLimit,
                              last.retrieval)

\* u1 has asked and the context holds an excerpt of the document u2 owns
C40_Witness ==
    /\ Asked
    /\ last.user_id = "u1"
    /\ \E i \in 1..Len(vectordb) :
          /\ vectordb[i].owner_id = "u2"
          /\ Holds(last.pdf_context, ContextPart(vectordb[i]))

---------------------------------------------------------------------------
(* Properties of the updated_at column, checked under SpecStamps            *)

---------------------------------------------------------------------------
(* Properties of the length of the summary, checked under SpecLong          *)

\* the words of a text: one more than its blanks, none for the empty text
WordCount(text) ==
    IF text = "" THEN 0
    ELSE Cardinality({i \in 1..Len(text) : SubSeq(text, i, i) = " "}) + 1

\* C34: the summary at the head of a window and the summary stored in the
\* session are never longer than the budget, whatever the model returned.
C34_SummaryWithinBudget ==
    \A s \in SessionIds :
        /\ sessions[s] # NoSession
              => WordCount(sessions[s].conversation_summary) <= SUMMARY_WORDS
        /\ chat_memory_map[s] # NoWindow
              => \A i \in 1..Len(chat_memory_map[s]) :
                    chat_memory_map[s][i].type = "system"
                       => WordCount(chat_memory_map[s][i].content) <= SUMMARY_WORDS

---------------------------------------------------------------------------
(* Properties of a long sequential run, checked under SpecRun               *)

\* C37: whenever a session has a window, each of its persisted messages is
\* held in the window or was among the turns handed to a summarization call.
C37_NoMessageLeavesUnsummarized ==
    \A s \in SessionIds :
        (sessions[s] # NoSession /\ chat_memory_map[s] # NoWindow)
        => \A i \in 1..Len(messages) :
              messages[i].session_id = s
              => \/ messages[i].content \in ContentsOf(Turns(chat_memory_map[s]))
                 \/ messages[i].content \in summarized[s]

---------------------------------------------------------------------------
(* Properties of concurrent send_message calls, checked under SpecRace      *)

\* no send_message call is in flight
AllFinished == \A w \in Workers : requests[w] = Idle

\* C35: once the concurrent calls on a session have finished, its window
\* holds at most K turns and at most one summary, at its head.
C35_WindowWellFormedAfterRace ==
    AllFinished =>
        \A s \in SessionIds :
            chat_memory_map[s] # NoWindow
            => /\ Len(Turns(chat_memory_map[s])) <= K
               /\ \A i \in 2..Len(chat_memory_map[s]) :
                      chat_memory_map[s][i].type # "system"

\* the session is blocked on account of a user's input
BlockedByUserInput(s) ==
    /\ sessions[s] # NoSession
    /\ sessions[s].is_blocked
    /\ \E i \in 1..Len(logs) : /\ logs[i].session_id = s
                               /\ logs[i].content_type = "user_input"

\* C36: after a call has blocked a session because of its user input, no
\* call persists a user or assistant message of that session.
C36_NoMessageAfterBlock ==
    [][\A s \in SessionIds :
          BlockedByUserInput(s)
          => SelectSession(messages', s) = SelectSession(messages, s)]_vars

\* the rows of a session with a role
RowsWithRole(s, role) ==
    {i \in 1..Len(messages) : messages[i].session_id = s /\ messages[i].role = role}

\* C38: each session has at most as many persisted assistant messages as
\* persisted user messages.
C38_AssistantRowsNeverOutnumberUserRows ==
    \A s \in SessionIds :
        Cardinality(RowsWithRole(s, "assistant")) <= Cardinality(RowsWithRole(s, "user"))

\* two calls in flight on one session, each with its user row saved and
\* waiting for the model
C38_Witness ==
    /\ \A w \in Workers : requests[w] # Idle /\ requests[w].pc = "model"
    /\ Cardinality(RowsWithRole("s1", "user")) > Cardinality(RowsWithRole("s1", "assistant"))

====
